---------------------------- MODULE Spec2Model ----------------------------
(* folklora_backend: the garment (kosi), comment (komentarji) and label   *)
(* (labele) routers of the REST backend, the utils existence predicates   *)
(* and the application's middleware stack, over a MySQL store.            *)
(*                                                                        *)
(* A request is a task: it arrives (the synchronous part of the handler   *)
(* up to its first await), and then one step per SQL statement it awaits, *)
(* each step running the handler on to its next await or its response.    *)
(* Tasks of different requests interleave between steps.                  *)
EXTENDS Integers, Sequences, FiniteSets, Bags, TLC

(* ------------------------------ bounds ------------------------------ *)

\* concurrent request slots
NProc == 2
\* rows the auto-increment counters of kos / labela / komentar may hand out
MaxKos == 2
MaxLabela == 2
MaxKomentar == 2
\* longest id string a request carries
MaxIdLen == 2
\* rows the auto-increment counter of uporabnik may hand out
MaxUporabnik == 2
\* half hours the clock may advance
MaxTicks == 3

Procs == 1..NProc

(* ------------------------------ values ------------------------------ *)

\* the digits \d matches among the characters of the model, and the characters
\* the enumerated id strings are made of ("a" and "-" are the non-digits)
Digits == {"0", "1", "2"}
IdChars == {"0", "1", "a", "-"}

RECURSIVE SeqsUpTo(_, _)
SeqsUpTo(S, n) ==
    IF n = 0 THEN {<<>>}
    ELSE LET shorter == SeqsUpTo(S, n - 1)
         IN  shorter \cup {Append(s, c) : s \in {t \in shorter : Len(t) = n - 1}, c \in S}

\* every id string of the bounded alphabet, the empty string included
IdStrings == SeqsUpTo(IdChars, MaxIdLen)
\* the id strings a path segment can carry (Express never binds an empty one)
PathIds == IdStrings \ {<<>>}

\* names of garments and labels; "" is the empty string, Undefined a missing field
Undefined == "undefined"
Names == {"a", "b"}

\* uploaded payloads, as their leading bytes
Jpeg == <<255, 216, 255, 224>>
Pdf == <<37, 80, 68, 70>>
Png == <<137, 80, 78, 71>>
Mp3 == <<73, 68, 51, 3>>
Mp4 == <<0, 0, 0, 24, 102, 116, 121, 112>>
Junk == <<1, 2, 3, 4>>
Contents == {Jpeg, Pdf, Png, Mp3, Mp4, Junk}

\* a password, as its first 72 bytes and the bytes that follow them
Pw(head, tail) == [head |-> head, tail |-> tail]
\* a missing or empty geslo
NoGeslo == Pw("", "")
Gesla == {Pw("p", ""), Pw("p", "x"), Pw("p", "y"), Pw("q", "")}
Usernames == {"u", "v"}
\* the salts bcrypt may draw
Salts == {"s1", "s2"}

NoFile == [present |-> FALSE, buffer |-> <<>>]
FileOf(c) == [present |-> TRUE, buffer |-> c]

(* --------------------------- pure functions -------------------------- *)

\* the strings of ^\d+$: a digit followed by digits only
RECURSIVE IsNumericId_strict(_)
IsNumericId_strict(s) ==
    /\ s # <<>>
    /\ Head(s) \in {"0", "1", "2", "3", "4", "5", "6", "7", "8", "9"}
    /\ (Tail(s) = <<>> \/ IsNumericId_strict(Tail(s)))

\* /^\d+$/.test(x): one or more characters, all of them digits
IsNumericId_unanchored(s) == Len(s) > 0 /\ s[1] \in Digits
IsNumericId(s) == Len(s) > 0 /\ \A i \in 1..Len(s) : s[i] \in Digits

DigitValue(c) == CASE c = "0" -> 0 [] c = "1" -> 1 [] c = "2" -> 2 [] OTHER -> 0

\* MySQL's cast of a string to a number in "WHERE id = ?": the value of the
\* longest leading run of digits (0 when there is none)
RECURSIVE LeadingNumber(_, _)
LeadingNumber(s, acc) ==
    IF s = <<>> \/ Head(s) \notin Digits THEN acc
    ELSE LeadingNumber(Tail(s), 10 * acc + DigitValue(Head(s)))
SqlNumber(s) == LeadingNumber(s, 0)

HasPrefix(buf, sig) == Len(buf) >= Len(sig) /\ SubSeq(buf, 1, Len(sig)) = sig

\* file-type's fileTypeFromBuffer: the MIME type of a byte signature, or Undefined
FileTypeFromBuffer(buf) ==
    IF HasPrefix(buf, <<255, 216, 255>>) THEN "image/jpeg"
    ELSE IF HasPrefix(buf, <<37, 80, 68, 70>>) THEN "application/pdf"
    ELSE IF HasPrefix(buf, <<137, 80, 78, 71>>) THEN "image/png"
    ELSE IF HasPrefix(buf, <<73, 68, 51>>) THEN "audio/mpeg"
    ELSE IF Len(buf) >= 8 /\ SubSeq(buf, 5, 8) = <<102, 116, 121, 112>> THEN "video/mp4"
    ELSE Undefined

\* mimeMap[detectedType.mime]
MimeMap_png(mime) ==
    CASE mime = "image/jpeg" -> "slika"
      [] mime = "image/png" -> "slika"
      [] mime = "application/pdf" -> "pdf"
      [] mime = "audio/mpeg" -> "audio"
      [] mime = "video/mp4" -> "video"
      [] OTHER -> Undefined
MimeMap(mime) ==
    CASE mime = "image/jpeg" -> "slika"
      [] mime = "application/pdf" -> "pdf"
      [] mime = "audio/mpeg" -> "audio"
      [] mime = "video/mp4" -> "video"
      [] OTHER -> Undefined

dovoljeniTipi == {"slika", "audio", "video", "pdf"}
dovoljeniTipiLabele == {"pokrajina", "tip_oblacila", "spol", "velikost", "drugo"}

\* the switch of GET /kosi/:id
\* (a switch with no case for pdf)
ContentTypeOf_noPdf(tip) ==
    CASE tip = "slika" -> "image/jpeg"
      [] tip = "audio" -> "audio/mpeg"
      [] tip = "video" -> "video/mp4"
      [] OTHER -> "application/octet-stream"
ContentTypeOf(tip) ==
    CASE tip = "slika" -> "image/jpeg"
      [] tip = "audio" -> "audio/mpeg"
      [] tip = "video" -> "video/mp4"
      [] tip = "pdf" -> "application/pdf"
      [] OTHER -> "application/octet-stream"

(* ------------------------------- state ------------------------------- *)

VARIABLES
    kos,         \* table kos: rows [id, ime, tip, vsebina, poskodovano]
    komentar,    \* table komentar: rows [id, kos_id, besedilo]
    labela,      \* table labela: rows [id, naziv, tip]
    kos_labela,  \* table kos_labela: a bag of <<kos_id, labela_id>> rows
    nextId,      \* the auto-increment counters of kos, labela, komentar
    env,         \* NODE_ENV of the process
    pc,          \* per request slot: "idle", the statement awaited, or "done"
    req,         \* per request slot: the request being handled
    res,         \* per request slot: the response and what the handler did
    uporabnik,   \* table uporabnik: rows [id, uporabnisko_ime, geslo, tip_uporabnika]
    now,         \* the clock of the process, in seconds
    sent,        \* per request slot: the Location header and the token of the response
    registered,  \* history: the password each 201 registration was made with
    last         \* history: the request answered last and the store it left

vars == <<kos, komentar, labela, kos_labela, nextId, env, pc, req, res,
          uporabnik, now, sent, registered, last>>
db == <<kos, komentar, labela, kos_labela, nextId>>
\* what the garment, comment and label handlers never touch
auth == <<uporabnik, now, sent, registered, last>>

BlankReq(op) ==
    [op |-> op, token |-> "none", id |-> <<>>, id2 |-> <<>>, ime |-> Undefined,
     tip |-> Undefined, file |-> NoFile, posk |-> Undefined, besedilo |-> Undefined,
     geslo |-> NoGeslo]

\* status 0: no response sent yet; sql: statements executed for the request;
\* err: the code of the error thrown; via: "route" (the handler answered) or
\* "next" (the handler forwarded the error with next(err)); data: the rows or
\* the bytes of the body; location, url: the Location header and the url of the
\* body; ends: how many times the handler sent a response or called next(err)
BlankRes == [status |-> 0, body |-> "", sql |-> 0, err |-> "", via |-> "",
             data |-> {}, location |-> <<>>, url |-> <<>>, ends |-> 0]

\* the response carries no Location header and no token
NothingSent == [location |-> <<>>, url |-> <<>>, token |-> <<>>]

RouterOf(op) ==
    CASE op \in {"datByLabela", "datPost"} -> "datoteke"
      [] op \in {"kosList", "kosGet", "kosPost", "kosDelete", "kosPut",
                 "klPost", "klDelete"} -> "kosi"
      [] op \in {"komByKos", "komGet", "komPost", "komDelete", "komPut"} -> "komentarji"
      [] op \in {"registracija", "prijava"} -> "uporabniki"
      [] OTHER -> "labele"

(* ------------------------- application stack ------------------------- *)

\* app.use order: the error middleware is registered before the routers
AppStack == <<"errorMiddleware", "kosi", "komentarji", "labele">>

GenericMessage == "Napaka streznika."

\* (a router the stack does not name is mounted after the ones it names)
PositionOf(name) ==
    IF \E i \in 1..Len(AppStack) : AppStack[i] = name
    THEN CHOOSE i \in 1..Len(AppStack) : AppStack[i] = name
    ELSE Len(AppStack) + 1

\* Express hands next(err) to the first error middleware registered after the
\* layer that raised it; with none left, its final handler answers: 500 with
\* the error's stack, or with the bare status text in production
ErrorBody(router, code) ==
    IF PositionOf("errorMiddleware") > PositionOf(router)
    THEN GenericMessage
    ELSE IF env = "production" THEN "Internal Server Error"
         ELSE "stack: " \o code

(* ------------------------------ schema ------------------------------- *)

\* unique indexes
DupKosIme_noIndex(ime, selfId) == FALSE
DupKosIme(ime, selfId) == \E r \in kos : r.ime = ime /\ r.id # selfId
DupLabelaNaziv(naziv) == \E r \in labela : r.naziv = naziv
DupKosLabela(g, l) == BagIn(<<g, l>>, kos_labela)

\* foreign keys of komentar.kos_id, kos_labela.kos_id, kos_labela.labela_id
FkKos_noConstraint(g) == TRUE
FkKos(g) == \E r \in kos : r.id = g
FkLabela(l) == \E r \in labela : r.id = l

\* ON DELETE CASCADE of the rows that reference a deleted garment / label
KomentarAfterKosDelete_noCascade(g) == komentar
KomentarAfterKosDelete(g) == {c \in komentar : c.kos_id # g}
BagWithout(B, gone) ==
    LET ks == BagToSet(B) \ gone IN [x \in ks |-> B[x]]
KosLabelaAfterKosDelete(g) ==
    BagWithout(kos_labela, {x \in BagToSet(kos_labela) : x[1] = g})
KosLabelaAfterLabelaDelete(l) ==
    BagWithout(kos_labela, {x \in BagToSet(kos_labela) : x[2] = l})

(* ------------------------- utils: predicates ------------------------- *)

\* if (!id) return false; SELECT id FROM ... WHERE id = ?  (rows.length > 0)
kosObstaja(id) == id # <<>> /\ \E r \in kos : r.id = SqlNumber(id)
komentarObstaja(id) == id # <<>> /\ \E r \in komentar : r.id = SqlNumber(id)
labelaObstaja(id) == id # <<>> /\ \E r \in labela : r.id = SqlNumber(id)
\* if (!uporabnisko_ime) return false; SELECT id FROM uporabnik WHERE uporabnisko_ime = ?
uporabnikObstaja(uporabnisko_ime) ==
    /\ uporabnisko_ime \notin {Undefined, ""}
    /\ \E r \in uporabnik : r.uporabnisko_ime = uporabnisko_ime

(* ------------------------- handler plumbing -------------------------- *)

Free(p) == pc[p] \in {"idle", "done"}

\* the connection a request arrives on: req.protocol and req.get('host')
Origin(p) ==
    IF p % 2 = 1 THEN [protocol |-> "http", host |-> "localhost:3000"]
    ELSE [protocol |-> "https", host |-> "folklora.si"]

\* a path id as the text a template string interpolates
RECURSIVE IdText(_)
IdText(s) == IF s = <<>> THEN "" ELSE Head(s) \o IdText(Tail(s))

\* urlVira(req, path): protocol://host joined with the path, which starts with
\* a slash (the URL as its base followed by the pieces of the path)
UrlVira(origin, path) == <<origin.protocol \o "://" \o origin.host>> \o path

\* encodeurl, which res.location applies: the characters that may not appear
\* in a URL are percent-encoded (of the strings modelled, the space of "a b")
EncodeUrl(s) == CASE s = "a b" -> "a%20b" [] OTHER -> s

\* res.location(url): the Location header set for url
LocationOf(url) == [i \in 1..Len(url) |-> EncodeUrl(url[i])]

Arrive(p, r) ==
    /\ Free(p)
    /\ req' = [req EXCEPT ![p] = r]

\* res.status(st).json({message: bd}) after n more statements
Reply(p, st, bd, n) ==
    /\ res' = [res EXCEPT ![p] = [status |-> st, body |-> bd, sql |-> @.sql + n,
                                  err |-> "", via |-> "route", data |-> {},
                                  location |-> <<>>, url |-> <<>>, ends |-> @.ends + 1]]
    /\ pc' = [pc EXCEPT ![p] = "done"]

\* res.status(st).json(rows) or res.send(bytes) after n more statements
ReplyData(p, st, bd, n, data) ==
    /\ res' = [res EXCEPT ![p] = [status |-> st, body |-> bd, sql |-> @.sql + n,
                                  err |-> "", via |-> "route", data |-> data,
                                  location |-> <<>>, url |-> <<>>, ends |-> @.ends + 1]]
    /\ pc' = [pc EXCEPT ![p] = "done"]

\* res.location(url); res.status(201).json({message: bd, url: url})
ReplyCreated(p, bd, n, url) ==
    /\ res' = [res EXCEPT ![p] = [status |-> 201, body |-> bd, sql |-> @.sql + n,
                                  err |-> "", via |-> "route", data |-> {},
                                  location |-> LocationOf(url), url |-> url,
                                  ends |-> @.ends + 1]]
    /\ pc' = [pc EXCEPT ![p] = "done"]

\* the answer sent on arrival, before any statement
ReplyNow(p, st, bd) ==
    /\ res' = [res EXCEPT ![p] = [BlankRes EXCEPT !.status = st, !.body = bd, !.via = "route",
                                                  !.ends = 1]]
    /\ pc' = [pc EXCEPT ![p] = "done"]

\* next(err) after n more statements
Forward(p, code, n) ==
    /\ res' = [res EXCEPT ![p] = [status |-> 500,
                                  body |-> ErrorBody(RouterOf(req[p].op), code),
                                  sql |-> @.sql + n, err |-> code, via |-> "next",
                                  data |-> {}, location |-> <<>>, url |-> <<>>,
                                  ends |-> @.ends + 1]]
    /\ pc' = [pc EXCEPT ![p] = "done"]

\* next(err) on arrival, before any statement
ForwardNow(p, op, code) ==
    /\ res' = [res EXCEPT ![p] = [status |-> 500, body |-> ErrorBody(RouterOf(op), code),
                                  sql |-> 0, err |-> code, via |-> "next",
                                  data |-> {}, location |-> <<>>, url |-> <<>>,
                                  ends |-> 1]]
    /\ pc' = [pc EXCEPT ![p] = "done"]

\* the handler awaits its next statement
Await(p, label, n) ==
    /\ res' = [res EXCEPT ![p] = [@ EXCEPT !.sql = @ + n]]
    /\ pc' = [pc EXCEPT ![p] = label]

\* the handler awaits its first statement
AwaitFirst(p, label) ==
    /\ res' = [res EXCEPT ![p] = BlankRes]
    /\ pc' = [pc EXCEPT ![p] = label]

At(p, label) == pc[p] = label

(* ----------------------------- /api/kosi ----------------------------- *)

Falsy(x) == x \in {Undefined, ""}

\* rows of kos with the id the statement names
KosRows(id) == {r \in kos : r.id = SqlNumber(id)}

\* the garments that carry label l
KosiZLabelo(l) == {r \in kos : BagIn(<<r.id, l>>, kos_labela)}

\* POST /kosi in flight (each will take an auto-increment id)
KosPostsInFlight == Cardinality({q \in Procs : pc[q] \in {"kosPost_check", "kosPost_insert"}})

\* GET /kosi
KosListArrive(p) ==
    /\ Arrive(p, BlankReq("kosList"))
    /\ AwaitFirst(p, "kosList_select")
    /\ UNCHANGED <<db, env, auth>>

\* SELECT id, ime, tip, poskodovano FROM kos
KosListSelect(p) ==
    /\ At(p, "kosList_select")
    /\ ReplyData(p, 200, "rows", 1,
                 {[id |-> r.id, ime |-> r.ime, tip |-> r.tip, poskodovano |-> r.poskodovano] :
                    r \in kos})
    /\ UNCHANGED <<db, env, auth, req>>

\* GET /kosi/:id
KosGetArrive(p, id) ==
    /\ Arrive(p, [BlankReq("kosGet") EXCEPT !.id = id])
    /\ IF ~IsNumericId(id)
       THEN ReplyNow(p, 400, "Neustrezen format za ID kosa!")
       ELSE AwaitFirst(p, "kosGet_exists")
    /\ UNCHANGED <<db, env, auth>>

KosGetExists(p) ==
    /\ At(p, "kosGet_exists")
    /\ IF ~kosObstaja(req[p].id)
       THEN Reply(p, 404, "Kos ne obstaja!", 1)
       ELSE Await(p, "kosGet_select", 1)
    /\ UNCHANGED <<db, env, auth, req>>

\* rows[0] of an empty result is undefined: reading file.tip throws
KosGetSelect(p) ==
    /\ At(p, "kosGet_select")
    /\ IF KosRows(req[p].id) = {}
       THEN Forward(p, "TypeError", 1)
       ELSE LET file == CHOOSE r \in KosRows(req[p].id) : TRUE
            IN  ReplyData(p, 200, ContentTypeOf(file.tip), 1, {[vsebina |-> file.vsebina]})
    /\ UNCHANGED <<db, env, auth, req>>

\* POST /kosi: the checks made before the first statement (0: none failed)
KosPostValidate(ime, tip, file) ==
    IF Falsy(ime) \/ Falsy(tip) \/ ~file.present THEN 400
    ELSE IF tip \notin dovoljeniTipi THEN 400
    ELSE 0

\* SELECT id FROM kos WHERE ime = ?  (rows.length > 0)
KosImeTaken_never(ime) == FALSE
KosImeTaken(ime) == \E r \in kos : r.ime = ime

\* the classifier: 415 unrecognized, 400 mismatch, 0 agreement
KosPostSniff_noMismatch(tip, buf) ==
    IF FileTypeFromBuffer(buf) = Undefined THEN 415 ELSE 0
KosPostSniff(tip, buf) ==
    LET detectedType == FileTypeFromBuffer(buf)
    IN  IF detectedType = Undefined THEN 415
        ELSE IF tip # MimeMap(detectedType) THEN 400
        ELSE 0

KosPostArrive(p, ime, tip, file) ==
    /\ nextId.kos + KosPostsInFlight <= MaxKos
    /\ Arrive(p, [BlankReq("kosPost") EXCEPT !.ime = ime, !.tip = tip, !.file = file])
    /\ IF KosPostValidate(ime, tip, file) # 0
       THEN ReplyNow(p, KosPostValidate(ime, tip, file), "Manjkajo podatki ali neveljaven tip!")
       ELSE AwaitFirst(p, "kosPost_check")
    /\ UNCHANGED <<db, env, auth>>

KosPostCheck(p) ==
    /\ At(p, "kosPost_check")
    /\ IF KosImeTaken(req[p].ime)
       THEN Reply(p, 409, "Kos z istim imenom ze obstaja!", 1)
       ELSE LET verdict == KosPostSniff(req[p].tip, req[p].file.buffer)
            IN  IF verdict = 415 THEN Reply(p, 415, "Nepodprt tip kosa!", 1)
                ELSE IF verdict = 400 THEN Reply(p, 400, "Vsebina kosa ne ustreza izbranemu tipu!", 1)
                ELSE Await(p, "kosPost_insert", 1)
    /\ UNCHANGED <<db, env, auth, req>>

\* INSERT INTO kos (ime, tip, vsebina, poskodovano) VALUES (?, ?, ?, false)
KosPostInsert(p) ==
    /\ At(p, "kosPost_insert")
    /\ IF DupKosIme(req[p].ime, 0)
       THEN /\ Forward(p, "ER_DUP_ENTRY", 1)
            /\ UNCHANGED <<kos, nextId>>
       ELSE /\ kos' = kos \cup {[id |-> nextId.kos, ime |-> req[p].ime, tip |-> req[p].tip,
                                 vsebina |-> req[p].file.buffer, poskodovano |-> 0]}
            /\ nextId' = [nextId EXCEPT !.kos = @ + 1]
            /\ ReplyCreated(p, "Kos uspesno dodan.", 1,
                            UrlVira(Origin(p), <<"/api/kosi/", ToString(nextId.kos)>>))
    /\ UNCHANGED <<komentar, labela, kos_labela, env, auth, req>>

\* DELETE /kosi/:id
KosDeleteArrive(p, id) ==
    /\ Arrive(p, [BlankReq("kosDelete") EXCEPT !.id = id])
    /\ IF ~IsNumericId(id)
       THEN ReplyNow(p, 400, "Neustrezen format za ID kosa!")
       ELSE AwaitFirst(p, "kosDelete_exists")
    /\ UNCHANGED <<db, env, auth>>

KosDeleteExists(p) ==
    /\ At(p, "kosDelete_exists")
    /\ IF ~kosObstaja(req[p].id)
       THEN Reply(p, 404, "Kos ne obstaja!", 1)
       ELSE Await(p, "kosDelete_delete", 1)
    /\ UNCHANGED <<db, env, auth, req>>

\* DELETE FROM kos WHERE id = ?  (affectedRows === 1, else the handler throws)
KosDeleteDelete_notFound(p) ==
    /\ At(p, "kosDelete_delete")
    /\ LET g == SqlNumber(req[p].id)
       IN  IF KosRows(req[p].id) = {}
           THEN /\ Reply(p, 404, "Kos ne obstaja!", 1)
                /\ UNCHANGED <<kos, komentar, kos_labela>>
           ELSE /\ kos' = kos \ KosRows(req[p].id)
                /\ komentar' = KomentarAfterKosDelete(g)
                /\ kos_labela' = KosLabelaAfterKosDelete(g)
                /\ Reply(p, 204, "", 1)
    /\ UNCHANGED <<labela, nextId, env, auth, req>>
KosDeleteDelete(p) ==
    /\ At(p, "kosDelete_delete")
    /\ LET g == SqlNumber(req[p].id)
       IN  IF KosRows(req[p].id) = {}
           THEN /\ Forward(p, "Error", 1)
                /\ UNCHANGED <<kos, komentar, kos_labela>>
           ELSE /\ kos' = kos \ KosRows(req[p].id)
                /\ komentar' = KomentarAfterKosDelete(g)
                /\ kos_labela' = KosLabelaAfterKosDelete(g)
                /\ Reply(p, 204, "", 1)
    /\ UNCHANGED <<labela, nextId, env, auth, req>>

\* PUT /kosi/:id
KosPutArrive(p, id, ime, posk) ==
    /\ Arrive(p, [BlankReq("kosPut") EXCEPT !.id = id, !.ime = ime, !.posk = posk])
    /\ IF ~IsNumericId(id)
       THEN ReplyNow(p, 400, "Neustrezen format za ID kosa!")
       ELSE AwaitFirst(p, "kosPut_exists")
    /\ UNCHANGED <<db, env, auth>>

KosPutExists(p) ==
    /\ At(p, "kosPut_exists")
    /\ IF ~kosObstaja(req[p].id)
       THEN Reply(p, 404, "Kos ne obstaja!", 1)
       ELSE IF req[p].ime = Undefined /\ req[p].posk = Undefined
            THEN Reply(p, 400, "Ni podatkov za posodobitev!", 1)
            ELSE Await(p, "kosPut_update", 1)
    /\ UNCHANGED <<db, env, auth, req>>

\* the row after UPDATE kos SET <supplied fields> WHERE id = ?
\* (an update that flipped the damaged flag instead of setting it)
KosPutRow_flip(r, ime, posk) ==
    [r EXCEPT !.ime = IF ime # Undefined THEN ime ELSE @,
              !.poskodovano = IF posk # Undefined THEN 1 - @ ELSE @]
KosPutRow(r, ime, posk) ==
    [r EXCEPT !.ime = IF ime # Undefined THEN ime ELSE @,
              !.poskodovano = IF posk # Undefined THEN (IF posk = "true" THEN 1 ELSE 0) ELSE @]

KosPutUpdate(p) ==
    /\ At(p, "kosPut_update")
    /\ LET rows == KosRows(req[p].id)
       IN  IF rows = {}
           THEN /\ Forward(p, "Error", 1)
                /\ UNCHANGED kos
           ELSE IF req[p].ime # Undefined /\ DupKosIme(req[p].ime, SqlNumber(req[p].id))
           THEN /\ Forward(p, "ER_DUP_ENTRY", 1)
                /\ UNCHANGED kos
           ELSE /\ kos' = (kos \ rows) \cup {KosPutRow(r, req[p].ime, req[p].posk) : r \in rows}
                /\ Reply(p, 204, "", 1)
    /\ UNCHANGED <<komentar, labela, kos_labela, nextId, env, auth, req>>

\* POST /kosi/:kos_id/labele/:labela_id
KlPostArrive(p, kos_id, labela_id) ==
    /\ Arrive(p, [BlankReq("klPost") EXCEPT !.id = kos_id, !.id2 = labela_id])
    /\ IF kos_id = <<>> \/ labela_id = <<>>
       THEN ReplyNow(p, 400, "Manjkajo podatki: kos_id ali labela_id!")
       ELSE IF ~IsNumericId(kos_id) \/ ~IsNumericId(labela_id)
       THEN ReplyNow(p, 400, "ID mora biti stevilka.")
       ELSE AwaitFirst(p, "klPost_kos")
    /\ UNCHANGED <<db, env, auth>>

\* (a handler that checked the label before the garment)
KlPostKos_labelFirst(p) ==
    /\ At(p, "klPost_kos")
    /\ IF ~labelaObstaja(req[p].id2)
       THEN Reply(p, 404, "Labela ne obstaja!", 1)
       ELSE IF ~kosObstaja(req[p].id)
            THEN Reply(p, 404, "Kos ne obstaja!", 2)
            ELSE Await(p, "klPost_insert", 2)
    /\ UNCHANGED <<db, env, auth, req>>
KlPostKos(p) ==
    /\ At(p, "klPost_kos")
    /\ IF ~kosObstaja(req[p].id)
       THEN Reply(p, 404, "Kos ne obstaja!", 1)
       ELSE Await(p, "klPost_labela", 1)
    /\ UNCHANGED <<db, env, auth, req>>

KlPostLabela(p) ==
    /\ At(p, "klPost_labela")
    /\ IF ~labelaObstaja(req[p].id2)
       THEN Reply(p, 404, "Labela ne obstaja!", 1)
       ELSE Await(p, "klPost_insert", 1)
    /\ UNCHANGED <<db, env, auth, req>>

\* the catch of the association add: the status answered for an error code
\* (0: forwarded with next(err))
KlPostCatch_forwardAll(code) == 0
KlPostCatch(code) == IF code = "ER_DUP_ENTRY" THEN 409 ELSE 0

\* the error INSERT INTO kos_labela (kos_id, labela_id) raises ("": none)
KosLabelaInsertError(g, l) ==
    IF DupKosLabela(g, l) THEN "ER_DUP_ENTRY"
    ELSE IF ~FkKos(g) \/ ~FkLabela(l) THEN "ER_NO_REFERENCED_ROW_2"
    ELSE ""

KlPostInsert(p) ==
    /\ At(p, "klPost_insert")
    /\ LET g == SqlNumber(req[p].id)
           l == SqlNumber(req[p].id2)
           code == KosLabelaInsertError(g, l)
       IN  IF code # ""
           THEN /\ IF KlPostCatch(code) # 0
                   THEN Reply(p, KlPostCatch(code), "Ta labela je ze povezana s kosom!", 1)
                   ELSE Forward(p, code, 1)
                /\ UNCHANGED kos_labela
           ELSE /\ kos_labela' = kos_labela (+) SetToBag({<<g, l>>})
                /\ ReplyCreated(p, "Labela uspesno dodana na kos.", 1,
                                UrlVira(Origin(p), <<"/api/kosi/", IdText(req[p].id),
                                                     "/labele/", IdText(req[p].id2)>>))
    /\ UNCHANGED <<kos, komentar, labela, nextId, env, auth, req>>

\* DELETE /kosi/:kos_id/labele/:labela_id
KlDeleteArrive(p, kos_id, labela_id) ==
    /\ Arrive(p, [BlankReq("klDelete") EXCEPT !.id = kos_id, !.id2 = labela_id])
    /\ IF ~IsNumericId(kos_id) \/ ~IsNumericId(labela_id)
       THEN ReplyNow(p, 400, "ID mora biti stevilka!")
       ELSE AwaitFirst(p, "klDelete_select")
    /\ UNCHANGED <<db, env, auth>>

\* (a handler that deleted without looking the row up first)
KlDeleteSelect_noLookup(p) ==
    /\ At(p, "klDelete_select")
    /\ Await(p, "klDelete_delete", 1)
    /\ UNCHANGED <<db, env, auth, req>>
KlDeleteSelect(p) ==
    /\ At(p, "klDelete_select")
    /\ IF ~BagIn(<<SqlNumber(req[p].id), SqlNumber(req[p].id2)>>, kos_labela)
       THEN Reply(p, 404, "Povezava kos_labela ne obstaja!", 1)
       ELSE Await(p, "klDelete_delete", 1)
    /\ UNCHANGED <<db, env, auth, req>>

KlDeleteDelete(p) ==
    /\ At(p, "klDelete_delete")
    /\ LET pair == <<SqlNumber(req[p].id), SqlNumber(req[p].id2)>>
       IN  /\ kos_labela' = BagWithout(kos_labela, {pair})
           /\ IF CopiesIn(pair, kos_labela) = 1
              THEN Reply(p, 204, "", 1)
              ELSE Forward(p, "Error", 1)
    /\ UNCHANGED <<kos, komentar, labela, nextId, env, auth, req>>

(* --------------------------- /api/datoteke --------------------------- *)

\* routes/datoteke.js is the garment router of the revision that names the
\* garment tables datoteka and datoteka_labela.
\* GET /datoteke/labele/:labela_id
DatByLabelaArrive(p, labela_id) ==
    /\ Arrive(p, [BlankReq("datByLabela") EXCEPT !.id = labela_id])
    /\ IF ~IsNumericId(labela_id)
       THEN ReplyNow(p, 400, "Neustrezen format za ID labele.")
       ELSE AwaitFirst(p, "datByLabela_exists")
    /\ UNCHANGED <<db, env, auth>>

DatByLabelaExists(p) ==
    /\ At(p, "datByLabela_exists")
    /\ IF ~labelaObstaja(req[p].id)
       THEN Reply(p, 404, "Labela ne obstaja.", 1)
       ELSE Await(p, "datByLabela_select", 1)
    /\ UNCHANGED <<db, env, auth, req>>

\* SELECT id, ime, tip, vsebina FROM datoteka d JOIN datoteka_labela dl ...
DatByLabelaSelect(p) ==
    /\ At(p, "datByLabela_select")
    /\ \/ Forward(p, "ER_NO_SUCH_TABLE", 1)
       \/ ReplyData(p, 200, "rows", 1,
                    {[id |-> r.id, ime |-> r.ime, tip |-> r.tip, vsebina |-> r.vsebina] :
                       r \in KosiZLabelo(SqlNumber(req[p].id))})
    /\ UNCHANGED <<db, env, auth, req>>

\* POST /datoteke
DatPostArrive(p, ime, tip, file) ==
    /\ nextId.kos + KosPostsInFlight <= MaxKos
    /\ Arrive(p, [BlankReq("datPost") EXCEPT !.ime = ime, !.tip = tip, !.file = file])
    /\ IF Falsy(ime) \/ Falsy(tip) \/ ~file.present
       THEN ReplyNow(p, 400, "Manjkajo podatki za dodajanje nove datoteke!")
       ELSE AwaitFirst(p, "datPost_check")
    /\ UNCHANGED <<db, env, auth>>

\* SELECT id FROM datoteka WHERE ime = ?, then the classifier
DatPostCheck(p) ==
    /\ At(p, "datPost_check")
    /\ \/ Forward(p, "ER_NO_SUCH_TABLE", 1)
       \/ IF KosImeTaken(req[p].ime)
          THEN Reply(p, 409, "Datoteka z istim imenom ze obstaja!", 1)
          ELSE LET verdict == KosPostSniff(req[p].tip, req[p].file.buffer)
               IN  IF verdict = 415 THEN Reply(p, 415, "Nepodprt tip datoteke!", 1)
                   ELSE IF verdict = 400
                        THEN Reply(p, 400, "Vsebina datoteke ne ustreza izbranemu tipu!", 1)
                        ELSE Await(p, "datPost_insert", 1)
    /\ UNCHANGED <<db, env, auth, req>>

\* INSERT INTO datoteka (ime, tip, vsebina) VALUES (?, ?, ?): after the 201 is
\* sent the handler does not return, reaches its throw, and its catch calls
\* next(err)
DatPostInsert(p) ==
    /\ At(p, "datPost_insert")
    /\ IF DupKosIme(req[p].ime, 0)
       THEN /\ Forward(p, "ER_DUP_ENTRY", 1)
            /\ UNCHANGED <<kos, nextId>>
       ELSE /\ kos' = kos \cup {[id |-> nextId.kos, ime |-> req[p].ime, tip |-> req[p].tip,
                                 vsebina |-> req[p].file.buffer, poskodovano |-> 0]}
            /\ nextId' = [nextId EXCEPT !.kos = @ + 1]
            /\ LET url == UrlVira(Origin(p), <<"/datoteke/", ToString(nextId.kos)>>)
               IN  res' = [res EXCEPT ![p] =
                            [status |-> 201, body |-> "Datoteka uspesno dodana!",
                             sql |-> @.sql + 1, err |-> "Error", via |-> "route",
                             data |-> {}, location |-> LocationOf(url), url |-> url,
                             ends |-> @.ends + 2]]
            /\ pc' = [pc EXCEPT ![p] = "done"]
    /\ UNCHANGED <<komentar, labela, kos_labela, env, auth, req>>

(* -------------------------- /api/komentarji -------------------------- *)

KomentarRows(id) == {c \in komentar : c.id = SqlNumber(id)}

KomPostsInFlight == Cardinality({q \in Procs : pc[q] \in {"komPost_exists", "komPost_insert"}})

\* GET /komentarji/kos/:kos_id
KomByKosArrive(p, kos_id) ==
    /\ Arrive(p, [BlankReq("komByKos") EXCEPT !.id = kos_id])
    /\ IF ~IsNumericId(kos_id)
       THEN ReplyNow(p, 400, "Neustrezen format za ID kosa!")
       ELSE AwaitFirst(p, "komByKos_exists")
    /\ UNCHANGED <<db, env, auth>>

KomByKosExists(p) ==
    /\ At(p, "komByKos_exists")
    /\ IF ~kosObstaja(req[p].id)
       THEN Reply(p, 404, "Kos ne obstaja!", 1)
       ELSE Await(p, "komByKos_select", 1)
    /\ UNCHANGED <<db, env, auth, req>>

KomByKosSelect(p) ==
    /\ At(p, "komByKos_select")
    /\ Reply(p, 200, "rows", 1)
    /\ UNCHANGED <<db, env, auth, req>>

\* GET /komentarji/:id
KomGetArrive(p, id) ==
    /\ Arrive(p, [BlankReq("komGet") EXCEPT !.id = id])
    /\ IF ~IsNumericId(id)
       THEN ReplyNow(p, 400, "Neustrezen format za ID komentarja!")
       ELSE AwaitFirst(p, "komGet_exists")
    /\ UNCHANGED <<db, env, auth>>

KomGetExists(p) ==
    /\ At(p, "komGet_exists")
    /\ IF ~komentarObstaja(req[p].id)
       THEN Reply(p, 404, "Komentar ne obstaja!", 1)
       ELSE Await(p, "komGet_select", 1)
    /\ UNCHANGED <<db, env, auth, req>>

KomGetSelect(p) ==
    /\ At(p, "komGet_select")
    /\ Reply(p, 200, "rows", 1)
    /\ UNCHANGED <<db, env, auth, req>>

\* POST /komentarji: kos_id comes in the body and is only tested for presence
KomPostArrive(p, kos_id, besedilo) ==
    /\ nextId.komentar + KomPostsInFlight <= MaxKomentar
    /\ Arrive(p, [BlankReq("komPost") EXCEPT !.id = kos_id, !.besedilo = besedilo])
    /\ IF kos_id = <<>> \/ Falsy(besedilo)
       THEN ReplyNow(p, 400, "Manjka podatek kos_id ali besedilo!")
       ELSE AwaitFirst(p, "komPost_exists")
    /\ UNCHANGED <<db, env, auth>>

KomPostExists(p) ==
    /\ At(p, "komPost_exists")
    /\ IF ~kosObstaja(req[p].id)
       THEN Reply(p, 404, "Kos ne obstaja!", 1)
       ELSE Await(p, "komPost_insert", 1)
    /\ UNCHANGED <<db, env, auth, req>>

\* the error INSERT INTO komentar (kos_id, uporabnik_id, besedilo) raises ("":
\* none): strict mode refuses a string that is no integer, the foreign key a
\* kos_id with no garment
KomentarInsertError(kos_id) ==
    IF ~IsNumericId(kos_id) THEN "ER_TRUNCATED_WRONG_VALUE_FOR_FIELD"
    ELSE IF ~FkKos(SqlNumber(kos_id)) THEN "ER_NO_REFERENCED_ROW_2"
    ELSE ""

KomPostInsert(p) ==
    /\ At(p, "komPost_insert")
    /\ IF KomentarInsertError(req[p].id) # ""
       THEN /\ Forward(p, KomentarInsertError(req[p].id), 1)
            /\ UNCHANGED <<komentar, nextId>>
       ELSE /\ komentar' = komentar \cup {[id |-> nextId.komentar, kos_id |-> SqlNumber(req[p].id),
                                           uporabnik_id |-> 1, besedilo |-> req[p].besedilo]}
            /\ nextId' = [nextId EXCEPT !.komentar = @ + 1]
            /\ ReplyCreated(p, "Komentar uspesno dodan.", 1,
                            UrlVira(Origin(p), <<"/api/komentarji/", ToString(nextId.komentar)>>))
    /\ UNCHANGED <<kos, labela, kos_labela, env, auth, req>>

\* DELETE /komentarji/:id
KomDeleteArrive(p, id) ==
    /\ Arrive(p, [BlankReq("komDelete") EXCEPT !.id = id])
    /\ IF ~IsNumericId(id)
       THEN ReplyNow(p, 400, "Neustrezen format za ID komentarja!")
       ELSE AwaitFirst(p, "komDelete_exists")
    /\ UNCHANGED <<db, env, auth>>

KomDeleteExists(p) ==
    /\ At(p, "komDelete_exists")
    /\ IF ~komentarObstaja(req[p].id)
       THEN Reply(p, 404, "Komentar ne obstaja!", 1)
       ELSE Await(p, "komDelete_delete", 1)
    /\ UNCHANGED <<db, env, auth, req>>

KomDeleteDelete(p) ==
    /\ At(p, "komDelete_delete")
    /\ komentar' = komentar \ KomentarRows(req[p].id)
    /\ IF KomentarRows(req[p].id) # {}
       THEN Reply(p, 204, "", 1)
       ELSE Forward(p, "Error", 1)
    /\ UNCHANGED <<kos, labela, kos_labela, nextId, env, auth, req>>

\* PUT /komentarji/:id: kos_id comes in the body
KomPutArrive(p, id, kos_id, besedilo) ==
    /\ Arrive(p, [BlankReq("komPut") EXCEPT !.id = id, !.id2 = kos_id, !.besedilo = besedilo])
    /\ IF ~IsNumericId(kos_id) \/ ~IsNumericId(id)
       THEN ReplyNow(p, 400, "ID mora biti stevilka!")
       ELSE AwaitFirst(p, "komPut_exists")
    /\ UNCHANGED <<db, env, auth>>

\* (a handler that ran its UPDATE before its checks)
KomPutExists_writeFirst(p) ==
    /\ At(p, "komPut_exists")
    /\ LET rows == KomentarRows(req[p].id)
       IN  komentar' = (komentar \ rows) \cup {[c EXCEPT !.besedilo = req[p].besedilo] : c \in rows}
    /\ IF ~kosObstaja(req[p].id2)
       THEN Reply(p, 404, "Kos ne obstaja!", 2)
       ELSE IF req[p].id2 = <<>> \/ Falsy(req[p].besedilo)
            THEN Reply(p, 400, "Manjkajo podatki za posodabljanje komentarja!", 2)
            ELSE Reply(p, 204, "", 2)
    /\ UNCHANGED <<kos, labela, kos_labela, nextId, env, auth, req>>
KomPutExists(p) ==
    /\ At(p, "komPut_exists")
    /\ IF ~kosObstaja(req[p].id2)
       THEN Reply(p, 404, "Kos ne obstaja!", 1)
       ELSE IF req[p].id2 = <<>> \/ Falsy(req[p].besedilo)
            THEN Reply(p, 400, "Manjkajo podatki za posodabljanje komentarja!", 1)
            ELSE Await(p, "komPut_update", 1)
    /\ UNCHANGED <<db, env, auth, req>>

\* UPDATE komentar SET besedilo=? WHERE id=?
\* (an update that also moved the comment to the garment of the body)
KomPutUpdate_moves(p) ==
    /\ At(p, "komPut_update")
    /\ LET rows == KomentarRows(req[p].id)
       IN  /\ komentar' = (komentar \ rows) \cup
                    {[c EXCEPT !.besedilo = req[p].besedilo, !.kos_id = SqlNumber(req[p].id2)] :
                        c \in rows}
           /\ IF rows # {}
              THEN Reply(p, 204, "", 1)
              ELSE Forward(p, "Error", 1)
    /\ UNCHANGED <<kos, labela, kos_labela, nextId, env, auth, req>>
KomPutUpdate(p) ==
    /\ At(p, "komPut_update")
    /\ LET rows == KomentarRows(req[p].id)
       IN  /\ komentar' = (komentar \ rows) \cup {[c EXCEPT !.besedilo = req[p].besedilo] : c \in rows}
           /\ IF rows # {}
              THEN Reply(p, 204, "", 1)
              ELSE Forward(p, "Error", 1)
    /\ UNCHANGED <<kos, labela, kos_labela, nextId, env, auth, req>>

(* ---------------------------- /api/labele ---------------------------- *)

LabelaRows(id) == {r \in labela : r.id = SqlNumber(id)}

LabPostsInFlight == Cardinality({q \in Procs : pc[q] \in {"labPost_check", "labPost_insert"}})

\* GET /labele
LabListArrive(p, token) ==
    /\ Arrive(p, [BlankReq("labList") EXCEPT !.token = token])
    /\ AwaitFirst(p, "labList_select")
    /\ UNCHANGED <<db, env, auth>>

LabListSelect(p) ==
    /\ At(p, "labList_select")
    /\ Reply(p, 200, "rows", 1)
    /\ UNCHANGED <<db, env, auth, req>>

\* GET /labele/:id
LabGetArrive(p, token, id) ==
    /\ Arrive(p, [BlankReq("labGet") EXCEPT !.token = token, !.id = id])
    /\ IF ~IsNumericId(id)
       THEN ReplyNow(p, 400, "Neustrezen format za ID labela!")
       ELSE AwaitFirst(p, "labGet_exists")
    /\ UNCHANGED <<db, env, auth>>

LabGetExists(p) ==
    /\ At(p, "labGet_exists")
    /\ IF ~labelaObstaja(req[p].id)
       THEN Reply(p, 404, "Labela ne obstaja!", 1)
       ELSE Await(p, "labGet_select", 1)
    /\ UNCHANGED <<db, env, auth, req>>

LabGetSelect(p) ==
    /\ At(p, "labGet_select")
    /\ Reply(p, 200, "rows", 1)
    /\ UNCHANGED <<db, env, auth, req>>

\* GET /labele/:id/datoteke: the join names the garment tables datoteka and
\* datoteka_labela; the schema is not part of the source, so the statement
\* either finds the tables under those names or is refused
LabKosiArrive(p, token, id) ==
    /\ Arrive(p, [BlankReq("labKosi") EXCEPT !.token = token, !.id = id])
    /\ IF ~IsNumericId(id)
       THEN ReplyNow(p, 400, "Neustrezen format za ID labele!")
       ELSE AwaitFirst(p, "labKosi_exists")
    /\ UNCHANGED <<db, env, auth>>

LabKosiExists(p) ==
    /\ At(p, "labKosi_exists")
    /\ IF ~labelaObstaja(req[p].id)
       THEN Reply(p, 404, "Labela ne obstaja!", 1)
       ELSE Await(p, "labKosi_select", 1)
    /\ UNCHANGED <<db, env, auth, req>>

LabKosiSelect(p) ==
    /\ At(p, "labKosi_select")
    /\ \/ Forward(p, "ER_NO_SUCH_TABLE", 1)
       \/ ReplyData(p, 200, "rows", 1,
                    {[id |-> r.id, ime |-> r.ime, tip |-> r.tip] :
                       r \in KosiZLabelo(SqlNumber(req[p].id))})
    /\ UNCHANGED <<db, env, auth, req>>

\* GET /labele/datoteka/:datoteka_id: utils exports no datotekaObstaja, so the
\* call throws a TypeError before any statement
LabByKosArrive(p, token, datoteka_id) ==
    /\ Arrive(p, [BlankReq("labByKos") EXCEPT !.token = token, !.id = datoteka_id])
    /\ IF ~IsNumericId(datoteka_id)
       THEN ReplyNow(p, 400, "Neustrezen format za ID datoteke!")
       ELSE ForwardNow(p, "labByKos", "TypeError")
    /\ UNCHANGED <<db, env, auth>>

\* POST /labele
LabPostValidate(naziv, tip) ==
    IF Falsy(naziv) \/ Falsy(tip) THEN 400
    ELSE IF tip \notin dovoljeniTipiLabele THEN 400
    ELSE 0

LabPostArrive(p, token, naziv, tip) ==
    /\ nextId.labela + LabPostsInFlight <= MaxLabela
    /\ Arrive(p, [BlankReq("labPost") EXCEPT !.token = token, !.ime = naziv, !.tip = tip])
    /\ IF LabPostValidate(naziv, tip) # 0
       THEN ReplyNow(p, 400, "Manjkajo podatki ali neveljaven tip labele!")
       ELSE AwaitFirst(p, "labPost_check")
    /\ UNCHANGED <<db, env, auth>>

\* SELECT id FROM labela WHERE naziv = ?
LabPostCheck(p) ==
    /\ At(p, "labPost_check")
    /\ IF \E r \in labela : r.naziv = req[p].ime
       THEN Reply(p, 409, "Labela z istim imenom ze obstaja!", 1)
       ELSE Await(p, "labPost_insert", 1)
    /\ UNCHANGED <<db, env, auth, req>>

\* INSERT INTO labela (naziv, tip) VALUES (?, ?)
LabPostInsert(p) ==
    /\ At(p, "labPost_insert")
    /\ IF DupLabelaNaziv(req[p].ime)
       THEN /\ Forward(p, "ER_DUP_ENTRY", 1)
            /\ UNCHANGED <<labela, nextId>>
       ELSE /\ labela' = labela \cup {[id |-> nextId.labela, naziv |-> req[p].ime, tip |-> req[p].tip]}
            /\ nextId' = [nextId EXCEPT !.labela = @ + 1]
            /\ ReplyCreated(p, "Labela uspesno dodana.", 1,
                            UrlVira(Origin(p), <<"/api/labele/", ToString(nextId.labela)>>))
    /\ UNCHANGED <<kos, komentar, kos_labela, env, auth, req>>

\* DELETE /labele/:id
LabDeleteArrive(p, token, id) ==
    /\ Arrive(p, [BlankReq("labDelete") EXCEPT !.token = token, !.id = id])
    /\ IF ~IsNumericId(id)
       THEN ReplyNow(p, 400, "Neustrezen format za ID labela!")
       ELSE AwaitFirst(p, "labDelete_exists")
    /\ UNCHANGED <<db, env, auth>>

LabDeleteExists(p) ==
    /\ At(p, "labDelete_exists")
    /\ IF ~labelaObstaja(req[p].id)
       THEN Reply(p, 404, "Labela ne obstaja!", 1)
       ELSE Await(p, "labDelete_delete", 1)
    /\ UNCHANGED <<db, env, auth, req>>

LabDeleteDelete(p) ==
    /\ At(p, "labDelete_delete")
    /\ labela' = labela \ LabelaRows(req[p].id)
    /\ IF LabelaRows(req[p].id) # {}
       THEN /\ kos_labela' = KosLabelaAfterLabelaDelete(SqlNumber(req[p].id))
            /\ Reply(p, 204, "", 1)
       ELSE /\ UNCHANGED kos_labela
            /\ Forward(p, "Error", 1)
    /\ UNCHANGED <<kos, komentar, nextId, env, auth, req>>

(* -------------------------- /api/uporabniki -------------------------- *)

\* unique index of uporabnik.uporabnisko_ime
DupUporabniskoIme(ime) == \E r \in uporabnik : r.uporabnisko_ime = ime

\* bcrypt.hash(geslo, 10) under the salt drawn: bcrypt reads the first 72 bytes
\* of the password and no more
BcryptHash(geslo, salt) == [salt |-> salt, digest |-> <<salt, geslo.head>>]
\* bcrypt.compare(geslo, hash): the hash of geslo under the salt of hash
BcryptCompare(geslo, hash) == BcryptHash(geslo, hash.salt) = hash

\* expiresIn: '1h', in seconds
ExpiresIn == 3600

\* jwt.sign(payload, JWT_SECRET, {expiresIn: '1h'}) at time t (the secret is set)
JwtSign_twoHours(row, t) ==
    [id |-> row.id, uporabnisko_ime |-> row.uporabnisko_ime,
     tip_uporabnika |-> row.tip_uporabnika, iat |-> t, exp |-> t + 2 * ExpiresIn]
JwtSign(row, t) ==
    [id |-> row.id, uporabnisko_ime |-> row.uporabnisko_ime,
     tip_uporabnika |-> row.tip_uporabnika, iat |-> t, exp |-> t + ExpiresIn]

\* the two 401 messages of the login handler
NeznanUporabnikMessage ==
    "Uporabnik z vpisanim uporabniskim imenom ne obstaja ali pa kombinacija uporabniskega imena in gesla ni pravilna!"
NapacnoGesloMessage_distinct == "Geslo ni pravilno!"
NapacnoGesloMessage ==
    "Uporabnik z vpisanim uporabniskim imenom ne obstaja ali pa kombinacija uporabniskega imena in gesla ni pravilna!"

RegsInFlight == Cardinality({q \in Procs : pc[q] \in {"reg_exists", "reg_insert"}})

\* POST /uporabniki
RegArrive(p, uporabnisko_ime, geslo, tip_uporabnika) ==
    /\ nextId.uporabnik + RegsInFlight <= MaxUporabnik
    /\ Arrive(p, [BlankReq("registracija") EXCEPT !.ime = uporabnisko_ime, !.geslo = geslo,
                                                  !.tip = tip_uporabnika])
    /\ IF Falsy(uporabnisko_ime) \/ geslo = NoGeslo \/ Falsy(tip_uporabnika)
       THEN ReplyNow(p, 400, "Manjkajo podatki za registracijo!")
       ELSE AwaitFirst(p, "reg_exists")
    /\ sent' = [sent EXCEPT ![p] = NothingSent]
    /\ UNCHANGED <<db, env, uporabnik, now, registered, last>>

RegExists(p) ==
    /\ At(p, "reg_exists")
    /\ IF uporabnikObstaja(req[p].ime)
       THEN Reply(p, 409, "Uporabnisko ime je ze zasedeno!", 1)
       ELSE Await(p, "reg_insert", 1)
    /\ UNCHANGED <<db, env, req, auth>>

\* bcrypt.hash, then INSERT INTO uporabnik (uporabnisko_ime, geslo, tip_uporabnika)
RegInsert(p) ==
    /\ At(p, "reg_insert")
    /\ IF DupUporabniskoIme(req[p].ime)
       THEN /\ Forward(p, "ER_DUP_ENTRY", 1)
            /\ UNCHANGED <<uporabnik, nextId, sent, registered>>
       ELSE \E salt \in Salts :
            /\ uporabnik' = uporabnik \cup
                    {[id |-> nextId.uporabnik, uporabnisko_ime |-> req[p].ime,
                      geslo |-> BcryptHash(req[p].geslo, salt), tip_uporabnika |-> req[p].tip]}
            /\ nextId' = [nextId EXCEPT !.uporabnik = @ + 1]
            /\ sent' = [sent EXCEPT ![p] =
                    [NothingSent EXCEPT
                        !.location = LocationOf(UrlVira(Origin(p), <<"/api/uporabniki/", req[p].ime>>)),
                        !.url = UrlVira(Origin(p), <<"/api/uporabniki/", req[p].ime>>)]]
            /\ registered' = registered \cup {<<req[p].ime, req[p].geslo>>}
            /\ Reply(p, 201, "Uporabnik uspesno dodan!", 1)
    /\ UNCHANGED <<kos, komentar, labela, kos_labela, env, req, now, last>>

\* POST /uporabniki/prijava
PrijavaArrive(p, uporabnisko_ime, geslo) ==
    /\ Arrive(p, [BlankReq("prijava") EXCEPT !.ime = uporabnisko_ime, !.geslo = geslo])
    /\ IF Falsy(uporabnisko_ime) \/ geslo = NoGeslo
       THEN ReplyNow(p, 400, "Manjkajo podatki za prijavo!")
       ELSE AwaitFirst(p, "prijava_exists")
    /\ sent' = [sent EXCEPT ![p] = NothingSent]
    /\ UNCHANGED <<db, env, uporabnik, now, registered, last>>

PrijavaExists(p) ==
    /\ At(p, "prijava_exists")
    /\ IF ~uporabnikObstaja(req[p].ime)
       THEN Reply(p, 401, NeznanUporabnikMessage, 1)
       ELSE Await(p, "prijava_select", 1)
    /\ UNCHANGED <<db, env, req, auth>>

\* SELECT * FROM uporabnik WHERE uporabnisko_ime = ?, bcrypt.compare, jwt.sign
PrijavaSelect(p) ==
    /\ At(p, "prijava_select")
    /\ LET rows == {r \in uporabnik : r.uporabnisko_ime = req[p].ime}
       IN  IF rows = {}
           THEN Forward(p, "TypeError", 1) /\ UNCHANGED sent
           ELSE LET row == CHOOSE r \in rows : TRUE
                IN  IF ~BcryptCompare(req[p].geslo, row.geslo)
                    THEN Reply(p, 401, NapacnoGesloMessage, 1) /\ UNCHANGED sent
                    ELSE /\ sent' = [sent EXCEPT ![p] =
                                [NothingSent EXCEPT !.token = JwtSign(row, now)]]
                         /\ Reply(p, 200, "Prijava uspesna!", 1)
    /\ UNCHANGED <<db, env, req, uporabnik, now, registered, last>>

\* half an hour passes
Tick ==
    /\ now < MaxTicks * (ExpiresIn \div 2)
    /\ now' = now + ExpiresIn \div 2
    /\ UNCHANGED <<db, env, pc, req, res, uporabnik, sent, registered, last>>

(* --------------------------- specifications -------------------------- *)

EmptyStore ==
    /\ kos = {}
    /\ komentar = {}
    /\ labela = {}
    /\ kos_labela = EmptyBag
    /\ uporabnik = {}
    /\ nextId = [kos |-> 1, labela |-> 1, komentar |-> 1, uporabnik |-> 1]

\* a store with garment 1, label 1 and comment 1 on garment 1, as left by one
\* POST /kosi, one POST /labele and one POST /komentarji
SeededStore ==
    /\ kos = {[id |-> 1, ime |-> "a", tip |-> "slika", vsebina |-> Jpeg, poskodovano |-> 0]}
    /\ komentar = {[id |-> 1, kos_id |-> 1, uporabnik_id |-> 1, besedilo |-> "t"]}
    /\ labela = {[id |-> 1, naziv |-> "a", tip |-> "spol"]}
    /\ kos_labela = EmptyBag
    /\ uporabnik = {}
    /\ nextId = [kos |-> 2, labela |-> 2, komentar |-> 2, uporabnik |-> 1]

Quiet ==
    /\ pc = [p \in Procs |-> "idle"]
    /\ req = [p \in Procs |-> BlankReq("none")]
    /\ res = [p \in Procs |-> BlankRes]
    /\ sent = [p \in Procs |-> NothingSent]
    /\ now = 0
    /\ registered = {}
    /\ last = [req |-> BlankReq("none"), db |-> <<>>]

Init == EmptyStore /\ env = "development" /\ Quiet

\* requests of every id-accepting endpoint, with any id string
IdArrivals(p) ==
    \/ \E id \in PathIds : KosGetArrive(p, id)
    \/ \E id \in PathIds : KosDeleteArrive(p, id)
    \/ \E id \in PathIds : KosPutArrive(p, id, "b", Undefined)
    \/ \E g \in PathIds, l \in {<<"1">>, <<"a">>} : KlPostArrive(p, g, l)
    \/ \E g \in {<<"1">>, <<"a">>}, l \in PathIds : KlPostArrive(p, g, l)
    \/ \E g \in PathIds, l \in {<<"1">>, <<"a">>} : KlDeleteArrive(p, g, l)
    \/ \E g \in {<<"1">>, <<"a">>}, l \in PathIds : KlDeleteArrive(p, g, l)
    \/ \E id \in PathIds : KomByKosArrive(p, id)
    \/ \E id \in PathIds : KomGetArrive(p, id)
    \/ \E id \in PathIds : KomDeleteArrive(p, id)
    \/ \E id \in PathIds, k \in {<<"1">>, <<"a">>, <<>>} : KomPutArrive(p, id, k, "u")
    \/ \E id \in {<<"1">>, <<"a">>}, k \in IdStrings : KomPutArrive(p, id, k, "u")
    \/ \E id \in PathIds : LabGetArrive(p, "none", id)
    \/ \E id \in PathIds : LabKosiArrive(p, "none", id)
    \/ \E id \in PathIds : LabByKosArrive(p, "none", id)
    \/ \E id \in PathIds : LabDeleteArrive(p, "none", id)

InitIds == SeededStore /\ env = "development" /\ Quiet
\* one request at a time: the format check is made on arrival, whatever else runs
IdSteps(p) ==
    \/ KosGetExists(p) \/ KosGetSelect(p)
    \/ KosDeleteExists(p) \/ KosDeleteDelete(p)
    \/ KosPutExists(p) \/ KosPutUpdate(p)
    \/ KlPostKos(p) \/ KlPostLabela(p) \/ KlPostInsert(p)
    \/ KlDeleteSelect(p) \/ KlDeleteDelete(p)
    \/ KomByKosExists(p) \/ KomByKosSelect(p)
    \/ KomGetExists(p) \/ KomGetSelect(p)
    \/ KomDeleteExists(p) \/ KomDeleteDelete(p)
    \/ KomPutExists(p) \/ KomPutUpdate(p)
    \/ LabGetExists(p) \/ LabGetSelect(p)
    \/ LabKosiExists(p) \/ LabKosiSelect(p)
    \/ LabDeleteExists(p) \/ LabDeleteDelete(p)

NextIds == \E p \in {1} : IdArrivals(p) \/ IdSteps(p)
SpecIds == InitIds /\ [][NextIds]_vars

\* garment create, rename, label create and association add, interleaved
UniqueArrivals(p) ==
    \/ \E ime \in Names : KosPostArrive(p, ime, "slika", FileOf(Jpeg))
    \/ \E id \in {<<"1">>, <<"2">>}, ime \in Names : KosPutArrive(p, id, ime, Undefined)
    \/ \E naziv \in Names : LabPostArrive(p, "none", naziv, "spol")
    \/ \E g \in {<<"1">>, <<"2">>}, l \in {<<"1">>, <<"2">>} : KlPostArrive(p, g, l)

UniqueSteps(p) ==
    \/ KosPostCheck(p) \/ KosPostInsert(p)
    \/ KosPutExists(p) \/ KosPutUpdate(p)
    \/ LabPostCheck(p) \/ LabPostInsert(p)
    \/ KlPostKos(p) \/ KlPostLabela(p) \/ KlPostInsert(p)

NextUnique == \E p \in Procs : UniqueArrivals(p) \/ UniqueSteps(p)
SpecUnique == Init /\ [][NextUnique]_vars

\* uploads of every payload under every declared type, one request at a time
\* (the classifier reads the request alone), with deletes to free the names
UploadArrivals(p) ==
    \/ \E ime \in Names \cup {Undefined}, tip \in dovoljeniTipi \cup {"gif", Undefined},
          file \in {NoFile} \cup {FileOf(c) : c \in Contents} :
            KosPostArrive(p, ime, tip, file)
    \/ \E id \in {<<"1">>, <<"2">>} : KosDeleteArrive(p, id)

UploadSteps(p) ==
    \/ KosPostCheck(p) \/ KosPostInsert(p)
    \/ KosDeleteExists(p) \/ KosDeleteDelete(p)

NextUpload == \E p \in {1} : UploadArrivals(p) \/ UploadSteps(p)
SpecUpload == Init /\ [][NextUpload]_vars

\* creates of one name against deletes and renames of the garment holding it
NameArrivals(p) ==
    \/ \E ime \in Names, tip \in {"slika", "gif", Undefined},
          file \in {NoFile, FileOf(Jpeg), FileOf(Junk)} :
            KosPostArrive(p, ime, tip, file)
    \/ \E id \in {<<"1">>, <<"2">>} : KosDeleteArrive(p, id)
    \/ \E id \in {<<"1">>, <<"2">>}, ime \in Names : KosPutArrive(p, id, ime, Undefined)

NameSteps(p) ==
    \/ KosPostCheck(p) \/ KosPostInsert(p)
    \/ KosDeleteExists(p) \/ KosDeleteDelete(p)
    \/ KosPutExists(p) \/ KosPutUpdate(p)

NextName == \E p \in Procs : NameArrivals(p) \/ NameSteps(p)
SpecName == Init /\ [][NextName]_vars

\* comment creation and association add against garment and label deletion
RefArrivals(p) ==
    \/ \E k \in {<<"1">>, <<"2">>, <<"1", "a">>, <<>>} : KomPostArrive(p, k, "u")
    \/ \E g \in {<<"1">>, <<"2">>}, l \in {<<"1">>, <<"2">>} : KlPostArrive(p, g, l)
    \/ \E id \in {<<"1">>, <<"2">>} : KosDeleteArrive(p, id)
    \/ \E id \in {<<"1">>, <<"2">>} : LabDeleteArrive(p, "none", id)
    \/ KosPostArrive(p, "b", "slika", FileOf(Jpeg))
    \/ LabPostArrive(p, "none", "b", "spol")

RefSteps(p) ==
    \/ KomPostExists(p) \/ KomPostInsert(p)
    \/ KlPostKos(p) \/ KlPostLabela(p) \/ KlPostInsert(p)
    \/ KosDeleteExists(p) \/ KosDeleteDelete(p)
    \/ LabDeleteExists(p) \/ LabDeleteDelete(p)
    \/ KosPostCheck(p) \/ KosPostInsert(p)
    \/ LabPostCheck(p) \/ LabPostInsert(p)

InitRef == SeededStore /\ env = "development" /\ Quiet
NextRef == \E p \in Procs : RefArrivals(p) \/ RefSteps(p)
SpecRef == InitRef /\ [][NextRef]_vars

\* the Labels resource, requested with and without a bearer token
Tokens == {"none", "invalid", "expired", "valid"}

AuthArrivals(p) ==
    \/ \E t \in Tokens : LabListArrive(p, t)
    \/ \E t \in Tokens, id \in {<<"1">>, <<"2">>} : LabGetArrive(p, t, id)
    \/ \E t \in Tokens, naziv \in Names : LabPostArrive(p, t, naziv, "spol")
    \/ \E t \in Tokens, id \in {<<"1">>, <<"2">>} : LabDeleteArrive(p, t, id)

AuthSteps(p) ==
    \/ LabListSelect(p)
    \/ LabGetExists(p) \/ LabGetSelect(p)
    \/ LabPostCheck(p) \/ LabPostInsert(p)
    \/ LabDeleteExists(p) \/ LabDeleteDelete(p)

NextAuth == \E p \in {1} : AuthArrivals(p) \/ AuthSteps(p)
SpecAuth == Init /\ [][NextAuth]_vars

\* requests whose handlers forward an error with next(err): a rename onto a
\* stored name, racing creates of one name, a delete racing a read or another
\* delete; NODE_ENV is whatever the process was started with
ErrArrivals(p) ==
    \/ \E ime \in Names : KosPostArrive(p, ime, "slika", FileOf(Jpeg))
    \/ \E id \in {<<"1">>, <<"2">>}, ime \in Names : KosPutArrive(p, id, ime, Undefined)
    \/ \E id \in {<<"1">>, <<"2">>} : KosGetArrive(p, id)
    \/ \E id \in {<<"1">>, <<"2">>} : KosDeleteArrive(p, id)

ErrSteps(p) ==
    \/ KosPostCheck(p) \/ KosPostInsert(p)
    \/ KosPutExists(p) \/ KosPutUpdate(p)
    \/ KosGetExists(p) \/ KosGetSelect(p)
    \/ KosDeleteExists(p) \/ KosDeleteDelete(p)

InitErr == EmptyStore /\ env \in {"development", "production"} /\ Quiet
NextErr == \E p \in Procs : ErrArrivals(p) \/ ErrSteps(p)
SpecErr == InitErr /\ [][NextErr]_vars

\* uploads of every payload under every declared type, followed by the other
\* operations on garments, their comments and their labels
ContentArrivals(p) ==
    \/ \E ime \in Names, tip \in dovoljeniTipi \cup {"gif"}, c \in Contents :
            KosPostArrive(p, ime, tip, FileOf(c))
    \/ \E ime \in {"b", Undefined}, posk \in {"true", Undefined} :
            KosPutArrive(p, <<"1">>, ime, posk)
    \/ LabPostArrive(p, "none", "a", "spol")
    \/ KlPostArrive(p, <<"1">>, <<"1">>)
    \/ KlDeleteArrive(p, <<"1">>, <<"1">>)
    \/ KomPostArrive(p, <<"1">>, "t")
    \/ KomPutArrive(p, <<"1">>, <<"1">>, "u")
    \/ KomDeleteArrive(p, <<"1">>)

ContentSteps(p) ==
    \/ KosPostCheck(p) \/ KosPostInsert(p)
    \/ KosPutExists(p) \/ KosPutUpdate(p)
    \/ LabPostCheck(p) \/ LabPostInsert(p)
    \/ KlPostKos(p) \/ KlPostLabela(p) \/ KlPostInsert(p)
    \/ KlDeleteSelect(p) \/ KlDeleteDelete(p)
    \/ KomPostExists(p) \/ KomPostInsert(p)
    \/ KomPutExists(p) \/ KomPutUpdate(p)
    \/ KomDeleteExists(p) \/ KomDeleteDelete(p)

NextContent == \E p \in {1} : ContentArrivals(p) \/ ContentSteps(p)
SpecContent == Init /\ [][NextContent]_vars

\* registrations of two usernames, with a field missing or a role outside the
\* documented three, interleaved
Vloge == {"garderober/-ka", "plesalec/-ka", "glasbenik/-ca"}

RegisterArrivals(p) ==
    \E ime \in Usernames \cup {Undefined}, geslo \in {Pw("p", ""), NoGeslo},
       tip \in {"plesalec/-ka", "admin", Undefined} : RegArrive(p, ime, geslo, tip)

RegisterSteps(p) == RegExists(p) \/ RegInsert(p)

NextRegister == \E p \in Procs : RegisterArrivals(p) \/ RegisterSteps(p)
SpecRegister == Init /\ [][NextRegister]_vars

\* registrations of the username u and logins under u and v, while time passes
LoginArrivals(p) ==
    \/ \E geslo \in {Pw("p", "x"), Pw("q", "")}, tip \in {"plesalec/-ka", "glasbenik/-ca"} :
            RegArrive(p, "u", geslo, tip)
    \/ \E ime \in Usernames, geslo \in Gesla \cup {NoGeslo} : PrijavaArrive(p, ime, geslo)

LoginSteps(p) ==
    \/ RegExists(p) \/ RegInsert(p)
    \/ PrijavaExists(p) \/ PrijavaSelect(p)

NextLogin == Tick \/ \E p \in Procs : LoginArrivals(p) \/ LoginSteps(p)
SpecLogin == Init /\ [][NextLogin]_vars

\* deletes of garments, comments and labels, interleaved, with creates that
\* store a second garment and a second comment
DeleteArrivals(p) ==
    \/ \E id \in {<<"1">>, <<"2">>} : KosDeleteArrive(p, id)
    \/ \E id \in {<<"1">>, <<"2">>} : KomDeleteArrive(p, id)
    \/ \E id \in {<<"1">>, <<"2">>} : LabDeleteArrive(p, "none", id)
    \/ KosPostArrive(p, "b", "slika", FileOf(Jpeg))
    \/ \E k \in {<<"1">>, <<"2">>} : KomPostArrive(p, k, "u")

DeleteSteps(p) ==
    \/ KosDeleteExists(p) \/ KosDeleteDelete(p)
    \/ KomDeleteExists(p) \/ KomDeleteDelete(p)
    \/ LabDeleteExists(p) \/ LabDeleteDelete(p)
    \/ KosPostCheck(p) \/ KosPostInsert(p)
    \/ KomPostExists(p) \/ KomPostInsert(p)

InitDelete == SeededStore /\ env = "development" /\ Quiet
NextDelete == \E p \in Procs : DeleteArrivals(p) \/ DeleteSteps(p)
SpecDelete == InitDelete /\ [][NextDelete]_vars

\* updates of the name and the damaged flag of two stored garments, interleaved
PutArrivals(p) ==
    \/ \E ime \in Names : KosPostArrive(p, ime, "slika", FileOf(Jpeg))
    \/ \E id \in {<<"1">>, <<"2">>}, ime \in {"a", Undefined},
          posk \in {"true", "false", Undefined} : KosPutArrive(p, id, ime, posk)

PutSteps(p) ==
    \/ KosPostCheck(p) \/ KosPostInsert(p)
    \/ KosPutExists(p) \/ KosPutUpdate(p)

NextPut == \E p \in Procs : PutArrivals(p) \/ PutSteps(p)
SpecPut == Init /\ [][NextPut]_vars

\* requests of every handler of the garment, comment and label routers, well
\* formed and not, naming stored rows and rows that are not stored
SomeIds == {<<"1">>, <<"2">>, <<"a">>}

RejectArrivals(p) ==
    \/ \E id \in SomeIds : KosGetArrive(p, id)
    \/ \E ime \in {"a", Undefined}, tip \in {"slika", "gif"},
          file \in {NoFile, FileOf(Jpeg), FileOf(Pdf), FileOf(Junk)} :
            KosPostArrive(p, ime, tip, file)
    \/ \E id \in SomeIds : KosDeleteArrive(p, id)
    \/ \E id \in SomeIds, posk \in {"true", Undefined} :
            KosPutArrive(p, id, Undefined, posk)
    \/ \E g \in SomeIds, l \in SomeIds : KlPostArrive(p, g, l)
    \/ \E g \in SomeIds, l \in SomeIds : KlDeleteArrive(p, g, l)
    \/ \E id \in SomeIds : KomByKosArrive(p, id)
    \/ \E id \in SomeIds : KomGetArrive(p, id)
    \/ \E k \in SomeIds \cup {<<>>}, besedilo \in {"u", Undefined} : KomPostArrive(p, k, besedilo)
    \/ \E id \in SomeIds : KomDeleteArrive(p, id)
    \/ \E id \in SomeIds, k \in SomeIds, besedilo \in {"u", Undefined} :
            KomPutArrive(p, id, k, besedilo)
    \/ LabListArrive(p, "none")
    \/ \E id \in SomeIds : LabGetArrive(p, "none", id)
    \/ \E id \in SomeIds : LabKosiArrive(p, "none", id)
    \/ \E id \in SomeIds : LabByKosArrive(p, "none", id)
    \/ \E naziv \in {"a", Undefined}, tip \in {"spol", "barva"} :
            LabPostArrive(p, "none", naziv, tip)
    \/ \E id \in SomeIds : LabDeleteArrive(p, "none", id)

RejectSteps(p) ==
    \/ IdSteps(p)
    \/ KosPostCheck(p) \/ KosPostInsert(p)
    \/ KomPostExists(p) \/ KomPostInsert(p)
    \/ LabListSelect(p)
    \/ LabPostCheck(p) \/ LabPostInsert(p)

InitReject == SeededStore /\ env = "development" /\ Quiet
\* one request at a time: what a handler writes before it answers is its own
NextReject == \E p \in {1} : RejectArrivals(p) \/ RejectSteps(p)
SpecReject == InitReject /\ [][NextReject]_vars

\* garments listed, read, uploaded, renamed, flagged, labelled and deleted, one
\* request at a time
KosiArrivals(p) ==
    \/ KosListArrive(p)
    \/ \E id \in {<<"1">>, <<"2">>} : KosGetArrive(p, id)
    \/ \E ime \in {"b", "", Undefined}, tip \in {"slika", "pdf", "audio", "video"},
          c \in {Jpeg, Pdf, Mp3, Mp4, Junk} : KosPostArrive(p, ime, tip, FileOf(c))
    \/ \E id \in {<<"1">>, <<"2">>}, ime \in {"c", "", Undefined}, posk \in {"true", Undefined} :
            KosPutArrive(p, id, ime, posk)
    \/ \E id \in {<<"1">>, <<"2">>} : KosDeleteArrive(p, id)
    \/ \E g \in {<<"1">>, <<"2">>} : KlPostArrive(p, g, <<"1">>)
    \/ \E g \in {<<"1">>, <<"2">>} : KlDeleteArrive(p, g, <<"1">>)
    \/ \E id \in {<<"1">>, <<"2">>} : LabKosiArrive(p, "none", id)
    \/ \E id \in {<<"1">>, <<"a">>} : DatByLabelaArrive(p, id)
    \/ \E id \in {<<"1">>, <<"2">>} : LabByKosArrive(p, "none", id)

KosiSteps(p) ==
    \/ KosListSelect(p)
    \/ KosGetExists(p) \/ KosGetSelect(p)
    \/ KosPostCheck(p) \/ KosPostInsert(p)
    \/ KosPutExists(p) \/ KosPutUpdate(p)
    \/ KosDeleteExists(p) \/ KosDeleteDelete(p)
    \/ KlPostKos(p) \/ KlPostLabela(p) \/ KlPostInsert(p)
    \/ KlDeleteSelect(p) \/ KlDeleteDelete(p)
    \/ LabKosiExists(p) \/ LabKosiSelect(p)
    \/ DatByLabelaExists(p) \/ DatByLabelaSelect(p)

InitKosi == SeededStore /\ env = "development" /\ Quiet
NextKosi == \E p \in {1} : KosiArrivals(p) \/ KosiSteps(p)
SpecKosi == InitKosi /\ [][NextKosi]_vars

\* the history of the request answered last: taken down once the slot has
\* answered, before its next request arrives
Remembered(p) == pc[p] = "idle" \/ last = [req |-> req[p], db |-> db]

Remember(p) ==
    /\ pc[p] = "done" /\ ~Remembered(p)
    /\ last' = [req |-> req[p], db |-> db]
    /\ UNCHANGED <<db, env, pc, req, res, uporabnik, now, sent, registered>>

\* updates, deletes and association removals, each of which may be sent again
\* right after it was answered, one request at a time; association adds and
\* comment updates between them
RetryArrivals(p) ==
    /\ Remembered(p)
    /\ \/ \E id \in {<<"1">>, <<"2">>}, ime \in {"c", Undefined}, posk \in {"true", "", Undefined} :
            KosPutArrive(p, id, ime, posk)
       \/ \E id \in {<<"1">>, <<"2">>} : KosDeleteArrive(p, id)
       \/ \E id \in {<<"1">>, <<"2">>} : KomDeleteArrive(p, id)
       \/ \E id \in {<<"1">>, <<"2">>} : LabDeleteArrive(p, "none", id)
       \/ \E g \in {<<"1">>, <<"2">>} : KlDeleteArrive(p, g, <<"1">>)
       \/ \E g \in {<<"1">>, <<"2">>} : KlPostArrive(p, g, <<"1">>)
       \/ \E besedilo \in {"u", "t"} : KomPutArrive(p, <<"1">>, <<"1">>, besedilo)

RetrySteps(p) ==
    \/ KosPutExists(p) \/ KosPutUpdate(p)
    \/ KosDeleteExists(p) \/ KosDeleteDelete(p)
    \/ KomDeleteExists(p) \/ KomDeleteDelete(p)
    \/ LabDeleteExists(p) \/ LabDeleteDelete(p)
    \/ KlDeleteSelect(p) \/ KlDeleteDelete(p)
    \/ KlPostKos(p) \/ KlPostLabela(p) \/ KlPostInsert(p)
    \/ KomPutExists(p) \/ KomPutUpdate(p)
    \/ Remember(p)

InitRetry == SeededStore /\ env = "development" /\ Quiet
NextRetry == \E p \in {1} : RetryArrivals(p) \/ RetrySteps(p)
SpecRetry == InitRetry /\ [][NextRetry]_vars

\* creates of every resource on two connections, one request at a time
CreateArrivals(p) ==
    /\ \A q \in Procs : Free(q)
    /\ \/ KosPostArrive(p, "a", "slika", FileOf(Jpeg))
       \/ KomPostArrive(p, <<"1">>, "u")
       \/ LabPostArrive(p, "none", "a", "spol")
       \/ \E g \in {<<"1">>, <<"0", "1">>} : KlPostArrive(p, g, <<"1">>)
       \/ \E ime \in {"u", "a b"} : RegArrive(p, ime, Pw("p", ""), "plesalec/-ka")

CreateSteps(p) ==
    \/ KosPostCheck(p) \/ KosPostInsert(p)
    \/ KomPostExists(p) \/ KomPostInsert(p)
    \/ LabPostCheck(p) \/ LabPostInsert(p)
    \/ KlPostKos(p) \/ KlPostLabela(p) \/ KlPostInsert(p)
    \/ RegExists(p) \/ RegInsert(p)

NextCreate == \E p \in Procs : CreateArrivals(p) \/ CreateSteps(p)
SpecCreate == Init /\ [][NextCreate]_vars

\* two garments, the first with a comment
TwoKosiStore ==
    /\ kos = {[id |-> 1, ime |-> "a", tip |-> "slika", vsebina |-> Jpeg, poskodovano |-> 0],
              [id |-> 2, ime |-> "b", tip |-> "pdf", vsebina |-> Pdf, poskodovano |-> 0]}
    /\ komentar = {[id |-> 1, kos_id |-> 1, uporabnik_id |-> 1, besedilo |-> "t"]}
    /\ labela = {}
    /\ kos_labela = EmptyBag
    /\ uporabnik = {}
    /\ nextId = [kos |-> 3, labela |-> 1, komentar |-> 2, uporabnik |-> 1]

\* comments created, read, updated and deleted, and garments deleted, one
\* request at a time
KomentarArrivals(p) ==
    \/ \E k \in {<<"1">>, <<"2">>, <<"3">>, <<>>}, besedilo \in {"u", Undefined} :
            KomPostArrive(p, k, besedilo)
    \/ \E id \in {<<"1">>, <<"2">>}, k \in {<<"1">>, <<"2">>, <<"3">>, <<"a">>},
          besedilo \in {"u", "w", Undefined} : KomPutArrive(p, id, k, besedilo)
    \/ \E id \in {<<"1">>, <<"2">>} : KomGetArrive(p, id)
    \/ \E id \in {<<"1">>, <<"2">>} : KomByKosArrive(p, id)
    \/ \E id \in {<<"1">>, <<"2">>} : KomDeleteArrive(p, id)
    \/ \E id \in {<<"1">>, <<"2">>} : KosDeleteArrive(p, id)

KomentarSteps(p) ==
    \/ KomPostExists(p) \/ KomPostInsert(p)
    \/ KomPutExists(p) \/ KomPutUpdate(p)
    \/ KomGetExists(p) \/ KomGetSelect(p)
    \/ KomByKosExists(p) \/ KomByKosSelect(p)
    \/ KomDeleteExists(p) \/ KomDeleteDelete(p)
    \/ KosDeleteExists(p) \/ KosDeleteDelete(p)

InitKomentar == TwoKosiStore /\ env = "development" /\ Quiet
NextKomentar == \E p \in {1} : KomentarArrivals(p) \/ KomentarSteps(p)
SpecKomentar == InitKomentar /\ [][NextKomentar]_vars

\* requests of every handler, one at a time
OnceArrivals(p) ==
    \/ RejectArrivals(p)
    \/ KosListArrive(p)
    \/ \E id \in {<<"1">>, <<"a">>} : DatByLabelaArrive(p, id)
    \/ \E ime \in {"a", "b", Undefined}, file \in {NoFile, FileOf(Jpeg), FileOf(Junk)} :
            DatPostArrive(p, ime, "slika", file)

OnceSteps(p) ==
    \/ RejectSteps(p)
    \/ KosListSelect(p)
    \/ DatByLabelaExists(p) \/ DatByLabelaSelect(p)
    \/ DatPostCheck(p) \/ DatPostInsert(p)

NextOnce == \E p \in {1} : OnceArrivals(p) \/ OnceSteps(p)
SpecOnce == InitReject /\ [][NextOnce]_vars

(* ------------------------------- claims ------------------------------ *)

\* the ids a request supplies: its path ids and, for PUT /komentarji/:id, the
\* kos_id of its body
SuppliedIds(r) ==
    IF r.op \in {"klPost", "klDelete", "komPut"} THEN {r.id, r.id2} ELSE {r.id}

IdOps ==
    {"kosGet", "kosDelete", "kosPut", "klPost", "klDelete", "komByKos", "komGet",
     "komDelete", "komPut", "labGet", "labKosi", "labByKos", "labDelete"}

\* C1: a request of an id-accepting endpoint of the garment, comment and label
\* routers (PUT /komentarji/:id with its body kos_id included) that supplies an
\* id not matching ^\d+$ is answered 400 and has executed no SQL statement.
C1_MalformedIdRejected ==
    \A p \in Procs :
        (req[p].op \in IdOps /\ \E x \in SuppliedIds(req[p]) : ~IsNumericId_strict(x))
            => pc[p] = "done" /\ res[p].status = 400 /\ res[p].sql = 0

\* a PUT /komentarji/1 whose body kos_id starts with a digit and is no number
C1_Witness ==
    \E p \in Procs :
        /\ req[p].op = "komPut" /\ req[p].id = <<"1">> /\ req[p].id2 = <<"1", "a">>
        /\ pc[p] = "done" /\ res[p].status = 400 /\ res[p].sql = 0

\* C2: a create request (POST /kosi, POST /labele) that passed the name
\* pre-check and ran its insert is answered 201 when the insert succeeded and
\* 409 when the unique index refused it, never 500.
C2_LosingInsertAnswered409 ==
    \A p \in Procs :
        (pc[p] = "done" /\ req[p].op \in {"kosPost", "labPost"} /\ res[p].sql = 2)
            => res[p].status \in {201, 409}

PairOf(r) == <<SqlNumber(r.id), SqlNumber(r.id2)>>

\* C3: with no removal, the association table never holds a pair twice, an
\* add whose insert runs while its pair is absent answers 201 and leaves exactly
\* one row of the pair, and an add whose insert runs while the pair is present
\* answers 409 and leaves the table as it is: of any number of adds of one pair
\* exactly one answers 201 and every other 409.
C3_OneAddWinsOthers409 ==
    [][/\ \A x \in BagToSet(kos_labela') : CopiesIn(x, kos_labela') = 1
       /\ \A p \in Procs :
            (pc[p] = "klPost_insert" /\ pc'[p] = "done")
                => IF BagIn(PairOf(req[p]), kos_labela)
                   THEN res'[p].status = 409 /\ kos_labela' = kos_labela
                   ELSE /\ res'[p].status = 201
                        /\ CopiesIn(PairOf(req[p]), kos_labela') = 1]_vars

\* two adds of the pair (1, 1) have finished, one with 201 and one with 409
C3_Witness ==
    /\ pc = [p \in Procs |-> "done"]
    /\ \A p \in Procs : req[p].op = "klPost" /\ PairOf(req[p]) = <<1, 1>>
    /\ \E p, q \in Procs : res[p].status = 201 /\ res[q].status = 409
    /\ CopiesIn(<<1, 1>>, kos_labela) = 1

\* C5: no two garments share a name, no two labels share a name, and no
\* (kos_id, labela_id) pair is held twice.
C5_NamesAndPairsUnique ==
    /\ \A r1, r2 \in kos : r1.ime = r2.ime => r1 = r2
    /\ \A r1, r2 \in labela : r1.naziv = r2.naziv => r1 = r2
    /\ \A x \in BagToSet(kos_labela) : CopiesIn(x, kos_labela) = 1

\* two garments and two labels exist, a pair is associated, and a rename of a
\* garment to the other garment's name has been refused by the unique index
C5_Witness ==
    /\ Cardinality(kos) = 2 /\ Cardinality(labela) = 2
    /\ kos_labela # EmptyBag
    /\ \E p \in Procs :
        pc[p] = "done" /\ req[p].op = "kosPut" /\ res[p].err = "ER_DUP_ENTRY"

\* a garment is stored under name n
NameHeld(n) == \E r \in kos : r.ime = n

\* slot p sends its response in this step
Answers(p) == pc'[p] = "done" /\ (pc[p] # "done" \/ req'[p] # req[p])

\* C4 as stated: every POST /kosi with name n answered while a garment is
\* stored under n is answered 409 and inserts no row.
C4_EveryPostOfHeldNameGets409 ==
    [][\A p \in Procs :
         (Answers(p) /\ req'[p].op = "kosPost" /\ NameHeld(req'[p].ime))
             => res'[p].status = 409 /\ kos' = kos]_vars

\* C4, amended: a POST /kosi with name n that supplies a type and a file, names
\* an allowed type, and whose name check runs while a garment is stored under
\* n is answered 409 and inserts no row; one that misses a field or names a
\* type outside the four is answered 400 on arrival and inserts no row either.
C4_CheckedPostOfHeldNameGets409 ==
    [][\A p \in Procs :
         /\ (pc[p] = "kosPost_check" /\ pc'[p] # pc[p] /\ NameHeld(req[p].ime))
                => pc'[p] = "done" /\ res'[p].status = 409 /\ kos' = kos
         /\ (Answers(p) /\ req'[p].op = "kosPost" /\ NameHeld(req'[p].ime) /\ pc[p] \in {"idle", "done"})
                => /\ res'[p].status = 400 /\ kos' = kos
                   /\ \/ req'[p].tip \notin {"slika", "audio", "video", "pdf"}
                      \/ ~req'[p].file.present]_vars

\* a second POST /kosi of a stored name has been answered 409
C4_Witness ==
    \E p \in Procs :
        /\ pc[p] = "done" /\ req[p].op = "kosPost" /\ res[p].status = 409
        /\ NameHeld(req[p].ime) /\ res[p].sql = 1

\* the logical type of a payload by its signature ("none": a recognized
\* signature outside the map, "unknown": no recognized signature)
LogicalTypeOf(buf) ==
    CASE buf = Jpeg -> "slika" [] buf = Pdf -> "pdf" [] buf = Mp3 -> "audio"
      [] buf = Mp4 -> "video" [] buf = Png -> "none" [] OTHER -> "unknown"

\* C10: a POST /kosi with name, type and file present and an allowed type,
\* whose name check finds the name unused, is answered 415 when the payload's
\* signature is not recognized and 400 when the signature's logical type is
\* not the declared one (PNG has none); in both cases no row is inserted. On
\* agreement it goes on to the insert.
C10_SniffedTypeMustAgree ==
    [][\A p \in Procs :
         (pc[p] = "kosPost_check" /\ pc'[p] # pc[p] /\ ~NameHeld(req[p].ime))
             => LET real == LogicalTypeOf(req[p].file.buffer)
                IN  IF real = "unknown"
                    THEN pc'[p] = "done" /\ res'[p].status = 415 /\ kos' = kos
                    ELSE IF real # req[p].tip
                    THEN pc'[p] = "done" /\ res'[p].status = 400 /\ kos' = kos
                    ELSE pc'[p] = "kosPost_insert" /\ kos' = kos]_vars

\* a PNG declared pdf has been answered 400 with nothing stored
C10_Witness ==
    \E p \in Procs :
        /\ pc[p] = "done" /\ req[p].op = "kosPost" /\ req[p].tip = "pdf"
        /\ req[p].file = FileOf(Png) /\ res[p].status = 400 /\ res[p].sql = 1
        /\ ~NameHeld(req[p].ime)

\* C6: every comment row references a stored garment and every association
\* row references a stored garment and a stored label.
C6_NoDanglingReference ==
    /\ \A c \in komentar : \E r \in kos : r.id = c.kos_id
    /\ \A x \in BagToSet(kos_labela) :
        (\E r \in kos : r.id = x[1]) /\ (\E r \in labela : r.id = x[2])

\* garment 1 was deleted between a comment creation's existence check and its
\* insert, and the insert was refused
C6_Witness ==
    \E p, q \in Procs :
        /\ pc[p] = "done" /\ req[p].op = "komPost" /\ res[p].sql = 2
        /\ res[p].err = "ER_NO_REFERENCED_ROW_2"
        /\ pc[q] = "done" /\ req[q].op = "kosDelete" /\ res[q].status = 204
        /\ SqlNumber(req[q].id) = SqlNumber(req[p].id)

\* C7: once DELETE /kosi/g has been answered 204, no comment row and no
\* association row with kos_id = g is stored.
C7_DeletedGarmentLeavesNoRows ==
    \A p \in Procs :
        (pc[p] = "done" /\ req[p].op = "kosDelete" /\ res[p].status = 204)
            => /\ \A c \in komentar : c.kos_id # SqlNumber(req[p].id)
               /\ \A x \in BagToSet(kos_labela) : x[1] # SqlNumber(req[p].id)

\* garment 1, which had comment 1, was given label 1 and then deleted
C7_Witness ==
    \E p, q \in Procs :
        /\ pc[p] = "done" /\ req[p].op = "kosDelete" /\ req[p].id = <<"1">>
        /\ res[p].status = 204
        /\ pc[q] = "done" /\ req[q].op = "klPost" /\ PairOf(req[q]) = <<1, 1>>
        /\ res[q].status = 201
        /\ komentar = {} /\ kos_labela = EmptyBag

\* C8: a request to the Labels resource (GET /labele, GET /labele/:id,
\* POST /labele, DELETE /labele/:id) that carries no valid token executes no
\* SQL statement and is answered 401.
C8_LabelsNeedValidToken ==
    \A p \in Procs :
        (req[p].op \in {"labList", "labGet", "labPost", "labDelete"} /\ req[p].token # "valid")
            => res[p].sql = 0 /\ (pc[p] = "done" => res[p].status = 401)

\* C9: every error a handler forwards with next(err) is answered 500 with the
\* generic message of the application's error middleware.
C9_ForwardedErrorGetsGenericBody ==
    \A p \in Procs :
        (pc[p] = "done" /\ res[p].via = "next")
            => res[p].status = 500 /\ res[p].body = "Napaka streznika."

\* C11: every stored garment has a tip among slika, audio, video and pdf that
\* is the logical type of its stored content's signature, and a step that is
\* not the insert of a garment creation leaves the tip and the vsebina of every
\* stored garment as they were.
C11_TipAgreesWithContent ==
    [][/\ \A r \in kos' :
            r.tip \in {"slika", "audio", "video", "pdf"} /\ r.tip = LogicalTypeOf(r.vsebina)
       /\ \A r \in kos : \A r2 \in kos' :
            r2.id = r.id => r2.tip = r.tip /\ r2.vsebina = r.vsebina
       /\ \A r2 \in kos' :
            (\A r \in kos : r.id # r2.id)
                => \E p \in Procs : pc[p] = "kosPost_insert" /\ pc'[p] = "done"]_vars

\* an MP3 stored as audio has been renamed and marked damaged, given a label
\* and a comment, and a JPEG declared audio has been refused
C11_Witness ==
    /\ \E r \in kos : r.tip = "audio" /\ r.vsebina = Mp3 /\ r.poskodovano = 1 /\ r.ime = "b"
    /\ kos_labela # EmptyBag /\ komentar # {}
    /\ \E p \in Procs :
        /\ pc[p] = "done" /\ req[p].op = "kosPost" /\ req[p].tip = "audio"
        /\ req[p].file = FileOf(Jpeg) /\ res[p].status = 400

\* a login with both fields present that was answered after the existence
\* check alone: the username was unknown
LoginOfUnknownUser(p) ==
    pc[p] = "done" /\ req[p].op = "prijava" /\ res[p].sql = 1

\* a login of a known username that was not let in: the password was refused
LoginWithRefusedPassword(p) ==
    pc[p] = "done" /\ req[p].op = "prijava" /\ res[p].sql = 2 /\ res[p].status # 200

\* C12: a login with an unknown username and a login with a known username and
\* a refused password are both answered 401, and their responses (status,
\* message, headers and token) are the same.
C12_UnknownUserAndWrongPasswordAlike ==
    /\ \A p \in Procs :
        (LoginOfUnknownUser(p) \/ LoginWithRefusedPassword(p)) => res[p].status = 401
    /\ \A p, q \in Procs :
        (LoginOfUnknownUser(p) /\ LoginWithRefusedPassword(q))
            => /\ res[p].status = res[q].status
               /\ res[p].body = res[q].body
               /\ sent[p] = sent[q]

\* v is not registered and was refused; u is registered with another password
\* than the one supplied and was refused
C12_Witness ==
    \E p, q \in Procs :
        /\ LoginOfUnknownUser(p) /\ req[p].ime = "v"
        /\ LoginWithRefusedPassword(q) /\ req[q].ime = "u" /\ req[q].geslo = Pw("q", "")
        /\ <<"u", Pw("p", "x")>> \in registered
        /\ res[p].status = 401 /\ res[q].status = 401

\* the passwords username u was registered with (one at most: usernames are unique)
RegisteredGesla(u) == {x[2] : x \in {y \in registered : y[1] = u}}

\* C13: the stored geslo of a registered user is a hash of the password of the
\* registration and not that password, and a login under a registered username
\* that reaches the password comparison is answered 200 with a token exactly
\* when the supplied password equals the registered one, and 401 otherwise.
C13_LoginIffSamePassword ==
    /\ \A r \in uporabnik :
        \E pw \in RegisteredGesla(r.uporabnisko_ime) :
            /\ r.geslo # pw
            /\ \E salt \in Salts : r.geslo = BcryptHash(pw, salt)
    /\ \A p \in Procs :
        (pc[p] = "done" /\ req[p].op = "prijava" /\ res[p].sql = 2)
            => IF req[p].geslo \in RegisteredGesla(req[p].ime)
               THEN res[p].status = 200 /\ sent[p].token # <<>>
               ELSE res[p].status = 401 /\ sent[p].token = <<>>

\* C14: the token of a successful login carries the id, the username and the
\* role of the stored row of that username, which are the ones the registration
\* was made with (a stored user row never changes), is issued at the time of the
\* login and expires 3600 seconds later.
C14_TokenCarriesStoredIdentity ==
    [][/\ \A p \in Procs :
            (pc[p] = "prijava_select" /\ pc'[p] = "done" /\ res'[p].status = 200)
                => \E r \in uporabnik :
                    /\ r.uporabnisko_ime = req[p].ime
                    /\ sent'[p].token =
                            [id |-> r.id, uporabnisko_ime |-> r.uporabnisko_ime,
                             tip_uporabnika |-> r.tip_uporabnika,
                             iat |-> now, exp |-> now + 3600]
       /\ \A p \in Procs :
            (pc[p] = "reg_insert" /\ pc'[p] = "done" /\ res'[p].status = 201)
                => \E r \in uporabnik' \ uporabnik :
                    /\ r.uporabnisko_ime = req[p].ime /\ r.tip_uporabnika = req[p].tip
                    /\ uporabnik' = uporabnik \cup {r}
       /\ uporabnik \subseteq uporabnik']_vars

\* u, registered as glasbenik/-ca, has logged in half an hour after the start
C14_Witness ==
    \E p \in Procs :
        /\ pc[p] = "done" /\ req[p].op = "prijava" /\ res[p].status = 200
        /\ sent[p].token.tip_uporabnika = "glasbenik/-ca"
        /\ sent[p].token.iat = 1800 /\ sent[p].token.exp = 5400

\* C15: a registration with the username, the password or the role missing is
\* answered 400 and inserts nothing; one whose username is taken when it is
\* answered is answered 409 and inserts nothing; any other is answered 201 with
\* a Location header and the same url in the body, and inserts exactly one row.
C15_RegistrationOutcomes ==
    [][\A p \in Procs :
         (Answers(p) /\ req'[p].op = "registracija")
             => IF \/ req'[p].ime \in {"undefined", ""}
                   \/ req'[p].geslo.head = ""
                   \/ req'[p].tip \in {"undefined", ""}
                THEN res'[p].status = 400 /\ uporabnik' = uporabnik
                ELSE IF \E r \in uporabnik : r.uporabnisko_ime = req'[p].ime
                THEN res'[p].status = 409 /\ uporabnik' = uporabnik
                ELSE /\ res'[p].status = 201
                     /\ uporabnik \subseteq uporabnik'
                     /\ Cardinality(uporabnik' \ uporabnik) = 1
                     /\ sent'[p].location # <<>>
                     /\ sent'[p].url = sent'[p].location]_vars

\* C16: a registration with all three fields present and a role outside
\* garderober/-ka, plesalec/-ka and glasbenik/-ca is never answered 201, and no
\* stored user has a role outside the three.
C16_RoleOutsideEnumRefused ==
    /\ \A p \in Procs :
        (pc[p] = "done" /\ req[p].op = "registracija" /\ req[p].tip \notin Vloge)
            => res[p].status # 201
    /\ \A r \in uporabnik : r.tip_uporabnika \in Vloge

\* the rows the DELETE statement of request r matches
DeleteTargets(r) ==
    CASE r.op = "kosDelete" -> {x \in kos : x.id = SqlNumber(r.id)}
      [] r.op = "komDelete" -> {x \in komentar : x.id = SqlNumber(r.id)}
      [] r.op = "labDelete" -> {x \in labela : x.id = SqlNumber(r.id)}
      [] OTHER -> {}

\* C17: a DELETE of a garment, a comment or a label that passed its existence
\* check is answered 204 when its statement removes the row and 500 when the
\* statement finds no row to remove, never 404 or another 4xx.
C17_ZeroRowDeleteIsServerFault ==
    [][\A p \in Procs :
         (/\ pc[p] \in {"kosDelete_delete", "komDelete_delete", "labDelete_delete"}
          /\ pc'[p] = "done")
             => IF DeleteTargets(req[p]) # {}
                THEN res'[p].status = 204
                ELSE res'[p].status = 500]_vars

\* two DELETE /kosi/1 both passed the existence check; one was answered 204
\* and the other 500
C17_Witness ==
    \E p, q \in Procs :
        /\ pc[p] = "done" /\ req[p].op = "kosDelete" /\ req[p].id = <<"1">>
        /\ res[p].status = 204
        /\ pc[q] = "done" /\ req[q].op = "kosDelete" /\ req[q].id = <<"1">>
        /\ res[q].status = 500 /\ res[q].sql = 2

\* the garment row r with the fields the request supplies written over it
WithSupplied(r, q) ==
    [id |-> r.id, tip |-> r.tip, vsebina |-> r.vsebina,
     ime |-> IF q.ime = "undefined" THEN r.ime ELSE q.ime,
     poskodovano |-> IF q.posk = "undefined" THEN r.poskodovano
                     ELSE IF q.posk = "true" THEN 1 ELSE 0]

\* C18: a PUT /kosi/:id found to name a stored garment is answered 400 with
\* nothing changed when it supplies neither ime nor poskodovano; otherwise its
\* update of the stored garment is answered 204 and replaces that row by the
\* row with the supplied fields written over it (poskodovano as 0 or 1), every
\* other row of every table staying as it was.
C18_PutChangesSuppliedFieldsOnly ==
    [][\A p \in Procs :
         /\ (/\ pc[p] = "kosPut_exists" /\ pc'[p] # pc[p]
              /\ \E r \in kos : r.id = SqlNumber(req[p].id)
              /\ req[p].ime = "undefined" /\ req[p].posk = "undefined")
                 => pc'[p] = "done" /\ res'[p].status = 400 /\ db' = db
         /\ \A r \in kos :
              (pc[p] = "kosPut_update" /\ pc'[p] = "done" /\ r.id = SqlNumber(req[p].id))
                 => /\ res'[p].status = 204
                    /\ kos' = (kos \ {r}) \cup {WithSupplied(r, req[p])}
                    /\ <<komentar, labela, kos_labela, nextId>>' =
                            <<komentar, labela, kos_labela, nextId>>]_vars

\* C19: a step in which a request of the garment, comment or label router is
\* answered 400 or 404 writes nothing to the store, and a step that writes to
\* the store is the step in which its request is answered, so that no earlier
\* step of a request answered 400 or 404 wrote either.
C19_RejectionWritesNothing ==
    [][/\ \A p \in Procs :
            (Answers(p) /\ res'[p].status \in {400, 404}
               /\ RouterOf(req'[p].op) \in {"kosi", "komentarji", "labele"})
                => <<kos, komentar, labela, kos_labela, nextId>>' =
                        <<kos, komentar, labela, kos_labela, nextId>>
       /\ (<<kos, komentar, labela, kos_labela, nextId>>' #
                <<kos, komentar, labela, kos_labela, nextId>>)
            => \E p \in Procs : Answers(p) /\ res'[p].status \notin {400, 404}]_vars

\* a PUT /komentarji/1 with the kos_id of no stored garment has been answered
\* 404 and comment 1 still has its text
C19_Witness ==
    \E p \in Procs :
        /\ pc[p] = "done" /\ req[p].op = "komPut" /\ req[p].id = <<"1">>
        /\ req[p].id2 = <<"2">> /\ req[p].besedilo = "u" /\ res[p].status = 404
        /\ \E c \in komentar : c.id = 1 /\ c.besedilo = "t"
        /\ ~\E r \in kos : r.id = 2

\* no garment is stored under the number the id string g stands for
NoGarment(g) == ~\E r \in kos : r.id = SqlNumber(g)

\* C20: a GET /kosi/g whose existence check runs while no garment g is stored
\* is answered 404; a POST /kosi/g/labele/l whose garment check runs while no
\* garment g is stored is answered 404 for the garment, having run that one
\* statement and no check of the label, whether label l is stored or not.
C20_MissingGarmentAnsweredFirst ==
    [][\A p \in Procs :
         /\ (pc[p] = "kosGet_exists" /\ pc'[p] # pc[p] /\ NoGarment(req[p].id))
                => pc'[p] = "done" /\ res'[p].status = 404
         /\ (pc[p] = "klPost_kos" /\ pc'[p] # pc[p] /\ NoGarment(req[p].id))
                => /\ pc'[p] = "done" /\ res'[p].status = 404
                   /\ res'[p].body = "Kos ne obstaja!"
                   /\ res[p].sql = 0 /\ res'[p].sql = 1]_vars

\* label 2 is not stored, garment 2 neither: the add of (2, 2) has been
\* answered 404 for the garment after one statement
C20_Witness ==
    \E p \in Procs :
        /\ pc[p] = "done" /\ req[p].op = "klPost"
        /\ req[p].id = <<"2">> /\ req[p].id2 = <<"2">>
        /\ NoGarment(<<"2">>) /\ ~\E r \in labela : r.id = 2
        /\ res[p].status = 404 /\ res[p].body = "Kos ne obstaja!" /\ res[p].sql = 1

\* C21: only GET /kosi/:id sends vsebina: no 200 answer of any other endpoint
\* (the garment list, the garments-by-label listings) holds a row with a
\* vsebina field.
C21_OnlyKosGetSendsVsebina ==
    \A p \in Procs :
        (pc[p] = "done" /\ res[p].status = 200 /\ req[p].op # "kosGet")
            => \A row \in res[p].data : "vsebina" \notin DOMAIN row

\* C22: with requests handled one at a time, DELETE /kosi/:g/labele/:l with
\* numeric ids answers 404 and changes nothing when the store holds no (g, l)
\* row, and otherwise removes exactly that row and answers 204; an add of a pair
\* the store does not hold (after a remove or before any add), whose garment and
\* label exist, answers 201 and stores the pair.
C22_RemoveOfAbsentPairIs404 ==
    [][\A p \in Procs :
        Answers(p) =>
          LET r == req'[p]
              pair == <<SqlNumber(r.id), SqlNumber(r.id2)>>
          IN  /\ (r.op = "klDelete" /\ IsNumericId(r.id) /\ IsNumericId(r.id2)) =>
                    IF ~BagIn(pair, kos_labela)
                    THEN res'[p].status = 404 /\ db' = db
                    ELSE /\ res'[p].status = 204
                         /\ ~BagIn(pair, kos_labela')
                         /\ \A x \in BagToSet(kos_labela) \ {pair} :
                                CopiesIn(x, kos_labela') = CopiesIn(x, kos_labela)
                         /\ BagToSet(kos_labela') \subseteq BagToSet(kos_labela)
                         /\ <<kos, komentar, labela, nextId>>' = <<kos, komentar, labela, nextId>>
              /\ (r.op = "klPost" /\ IsNumericId(r.id) /\ IsNumericId(r.id2)
                    /\ kosObstaja(r.id) /\ labelaObstaja(r.id2) /\ ~BagIn(pair, kos_labela)) =>
                    res'[p].status = 201 /\ CopiesIn(pair, kos_labela') = 1]_vars

\* a remove answered 204 (after the add that stored the pair), the pair gone
C22_Witness ==
    \E p \in Procs :
        /\ pc[p] = "done" /\ req[p].op = "klDelete" /\ res[p].status = 204
        /\ req[p].id = <<"1">> /\ req[p].id2 = <<"1">>
        /\ ~BagIn(<<1, 1>>, kos_labela)

\* the labels that garment g carries, as the rows of id, naziv, tip
LabeleKosa(g) ==
    {[id |-> l.id, naziv |-> l.naziv, tip |-> l.tip] : l \in {x \in labela : BagIn(<<g, x.id>>, kos_labela)}}

\* C23: GET /labele/datoteka/:g for a stored garment g answers 200 with exactly
\* the labels that g carries at that moment.
C23_LabelsOfGarmentListed ==
    [][\A p \in Procs :
        (Answers(p) /\ req'[p].op = "labByKos" /\ IsNumericId(req'[p].id) /\ kosObstaja(req'[p].id))
            => /\ res'[p].status = 200
               /\ res'[p].data = LabeleKosa(SqlNumber(req'[p].id))]_vars

\* the operations that create nothing
RetryOps == {"kosPut", "kosDelete", "komDelete", "labDelete", "klDelete", "komPut"}

\* C24: an update, a delete or an association removal sent again right after it
\* was answered leaves the store as the first application left it.
C24_RetryLeavesStoreAsOnce ==
    [][\A p \in Procs :
        (Answers(p) /\ req'[p].op \in RetryOps /\ req'[p] = last.req)
            => db' = last.db]_vars

\* PUT /kosi/1 {ime: "c", poskodovano: true} was answered and is sent again:
\* its UPDATE is about to run on the row the first application left
C24_Witness ==
    \E p \in Procs :
        /\ pc[p] = "kosPut_update" /\ req[p].op = "kosPut"
        /\ req[p] = last.req /\ last.db = db
        /\ req[p].ime = "c" /\ req[p].posk = "true"
        /\ \E r \in kos : r.id = 1 /\ r.ime = "c" /\ r.poskodovano = 1

\* the path of the resource a 201 answer of request r created (as its pieces),
\* given the counters before the insert
PathOfNew(r, ids) ==
    CASE r.op = "kosPost" -> <<"/api/kosi/", ToString(ids.kos)>>
      [] r.op = "komPost" -> <<"/api/komentarji/", ToString(ids.komentar)>>
      [] r.op = "labPost" -> <<"/api/labele/", ToString(ids.labela)>>
      [] r.op = "klPost" -> <<"/api/kosi/", IdText(r.id), "/labele/", IdText(r.id2)>>
      [] OTHER -> <<"/api/uporabniki/", r.ime>>

\* the Location header and the url of the body of the answer in slot p
HeaderAndUrl(p) ==
    IF req[p].op = "registracija" THEN <<sent[p].location, sent[p].url>>
    ELSE <<res[p].location, res[p].url>>

\* C25: every 201 answer (garment, comment, label, association, user) carries
\* a Location header equal to the url of its body, which is the request's
\* protocol and host followed by the path of the new resource.
C25_CreatedCarriesLocation ==
    [][\A p \in Procs :
        (Answers(p) /\ res'[p].status = 201)
            => /\ HeaderAndUrl(p)'[1] = HeaderAndUrl(p)'[2]
               /\ HeaderAndUrl(p)'[2] =
                    <<Origin(p).protocol \o "://" \o Origin(p).host>> \o PathOfNew(req'[p], nextId)]_vars

\* C26: a POST /komentarji answered 201 inserts exactly one comment, whose
\* kos_id is the kos_id of the request, and no step of any request changes
\* the kos_id of a stored comment.
C26_CommentKeepsItsGarment ==
    [][/\ \A p \in Procs :
            (Answers(p) /\ req'[p].op = "komPost" /\ res'[p].status = 201)
                => /\ komentar \subseteq komentar'
                   /\ Cardinality(komentar' \ komentar) = 1
                   /\ \A c \in komentar' \ komentar :
                        /\ c.kos_id = SqlNumber(req'[p].id)
                        /\ IsNumericId(req'[p].id)
                        /\ c.besedilo = req'[p].besedilo
       /\ \A c \in komentar, d \in komentar' : c.id = d.id => c.kos_id = d.kos_id]_vars

\* the comment a POST for garment 2 created, after a PUT on it was answered 204
C26_Witness ==
    \E p \in Procs :
        /\ pc[p] = "done" /\ req[p].op = "komPut" /\ res[p].status = 204
        /\ req[p].id = <<"2">> /\ req[p].besedilo = "w"
        /\ \E c \in komentar : c.id = 2 /\ c.kos_id = 2 /\ c.besedilo = "w"

\* C28: the besedilo of a stored comment changes only in a step of a
\* PUT /komentarji/:id that names this comment and whose body kos_id is the
\* garment the comment belongs to; a PUT naming another garment leaves the
\* comment as it was.
C28_OnlyOwnerGarmentUpdates ==
    [][\A c \in komentar, d \in komentar' :
        (c.id = d.id /\ c.besedilo # d.besedilo)
            => \E p \in Procs :
                /\ Answers(p) /\ req'[p].op = "komPut"
                /\ SqlNumber(req'[p].id) = c.id
                /\ SqlNumber(req'[p].id2) = c.kos_id]_vars

\* C27: a handler ends its request exactly once: while it awaits a statement
\* it has neither sent a response nor called next(err), and once it is done it
\* has done one of the two, once.
C27_OneResponsePerRequest ==
    \A p \in Procs :
        /\ res[p].ends <= 1
        /\ pc[p] = "done" => res[p].ends = 1
        /\ pc[p] \notin {"idle", "done"} => res[p].ends = 0

\* C29: every stored garment has a name that is neither missing nor empty.
C29_EveryGarmentNamed ==
    \A r \in kos : r.ime \notin {"", Undefined}

\* C30: GET /kosi/:id answered 200 sends the bytes stored for the garment
\* under the Content-Type of the MIME type sniffed from them, one of the four
\* mapped types and never application/octet-stream; an upload answered 201
\* stores the uploaded bytes, and no update of the name or the damaged flag
\* changes the bytes or the type of a stored garment, whose id no later
\* upload takes.
C30_GetReturnsUploadedBytes ==
    [][/\ \A p \in Procs :
            /\ (Answers(p) /\ req'[p].op = "kosGet" /\ res'[p].status = 200) =>
                    \E r \in kos :
                        /\ r.id = SqlNumber(req'[p].id)
                        /\ res'[p].data = {[vsebina |-> r.vsebina]}
                        /\ res'[p].body = FileTypeFromBuffer(r.vsebina)
                        /\ res'[p].body \in {"image/jpeg", "audio/mpeg", "video/mp4",
                                              "application/pdf"}
            /\ (Answers(p) /\ req'[p].op = "kosPost" /\ res'[p].status = 201) =>
                    \E r \in kos' \ kos :
                        /\ r.id = nextId.kos
                        /\ r.vsebina = req'[p].file.buffer
                        /\ kos' = kos \cup {r}
       /\ \A r \in kos, t \in kos' :
            r.id = t.id => (r.vsebina = t.vsebina /\ r.tip = t.tip)
       /\ \A t \in kos' : (\A r \in kos : r.id # t.id) =>
            (t.id = nextId.kos /\ nextId'.kos = nextId.kos + 1)
       /\ nextId'.kos >= nextId.kos]_vars

\* garment 2, uploaded as a PDF, then renamed and flagged, is read back
C30_Witness ==
    \E p \in Procs :
        /\ pc[p] = "done" /\ req[p].op = "kosGet" /\ req[p].id = <<"2">>
        /\ res[p].status = 200 /\ res[p].body = "application/pdf"
        /\ res[p].data = {[vsebina |-> Pdf]}
        /\ \E r \in kos : r.id = 2 /\ r.ime = "c" /\ r.poskodovano = 1

====
